---- MODULE Spec2Model ----
(***************************************************************************)
(* A model of the walle_mqtt_protocol codec (MQTT v3.1.1 part, src/v4):    *)
(* the Remaining Length codec, the fixed header codec, the packet          *)
(* builders and the per-packet encoders and decoders.                      *)
(*                                                                         *)
(* Bytes are integers 0..255, a buffer (Bytes / BytesMut) is a sequence of *)
(* bytes, a String is the sequence of its UTF-8 bytes.  Option<T> is the   *)
(* empty sequence (None) or a one-element sequence (Some(x)).  A Result is *)
(* a record tagged "Ok" or "Err"; a panic (unwrap on None/Err, a read past *)
(* the end of a Bytes) is the third outcome, tagged "Panic".               *)
(***************************************************************************)
EXTENDS Integers, Sequences, FiniteSets, TLC

VARIABLES
    pc,     \* position of the caller: "idle", "building", "built", "encoded", "decoded"
    inp,    \* the caller's input: a builder under construction, or a raw input
    pkt,    \* the value a builder returned (a Result)
    buf,    \* the buffer: bytes written by encode / bytes handed to decode
    ret,    \* what encode returned (a Result)
    dec     \* what decode returned (a Result)

vars == <<pc, inp, pkt, buf, ret, dec>>

-----------------------------------------------------------------------------
(* Option and Result *)

None == <<>>
Some(x) == <<x>>
IsSome(o) == Len(o) = 1
Unwrap(o) == o[1]

Ok(v) == [tag |-> "Ok", val |-> v]
Err(e, a) == [tag |-> "Err", err |-> e, arg |-> a]
Panic == [tag |-> "Panic"]
NotKnow == Err("NotKnow", 0)

IsOk(r) == r.tag = "Ok"
IsErr(r) == r.tag = "Err"
IsPanic(r) == r.tag = "Panic"

Nothing == [tag |-> "Nothing"]

-----------------------------------------------------------------------------
(* Integer helpers: u8 / u16 casts and bit tests *)

U8(x) == x % 256
U16(x) == x % 65536
Bit(x, k) == (x \div (2 ^ k)) % 2
Hi(x) == (x % 65536) \div 256
Lo(x) == x % 256

Drop(s, n) == SubSeq(s, n + 1, Len(s))
Take(s, n) == SubSeq(s, 1, n)

-----------------------------------------------------------------------------
(* Program constants *)

ONE_BYTE_MAX_LEN == 127
TWO_BYTE_MAX_LEN == 16383
THREE_BYTE_MAX_LEN == 2097151
FOUR_BYTE_MAX_LEN == 268435455

QoSAtMostOnce == 0
QoSAtLeastOnce == 1
QoSExactlyOnce == 2
QoSValues == {QoSAtMostOnce, QoSAtLeastOnce, QoSExactlyOnce}

MessageTypes == <<"CONNECT", "CONNACK", "PUBLISH", "PUBACK", "PUBREC", "PUBREL",
                  "PUBCOMP", "SUBSCRIBE", "SUBACK", "UNSUBSCRIBE", "UNSUBACK",
                  "PINGREQ", "PINGRESP", "DISCONNECT">>
MessageTypeSet == {MessageTypes[i] : i \in 1..14}

-----------------------------------------------------------------------------
(* Remaining Length: encoder (fixed_header.rs) *)

remaining_length_len(remaining_length) ==
    IF remaining_length < ONE_BYTE_MAX_LEN THEN Ok(1)
    ELSE IF remaining_length < TWO_BYTE_MAX_LEN THEN Ok(2)
    ELSE IF remaining_length < THREE_BYTE_MAX_LEN THEN Ok(3)
    ELSE IF remaining_length < FOUR_BYTE_MAX_LEN THEN Ok(4)
    ELSE NotKnow

\* encode_remaining_len with the third byte's continuation bit left out
encode_remaining_len_mut(remaining_len) ==
    IF remaining_len < ONE_BYTE_MAX_LEN THEN
        [res |-> Ok(1), out |-> <<U8(remaining_len)>>]
    ELSE IF remaining_len < TWO_BYTE_MAX_LEN THEN
        LET byte2_data == remaining_len \div 128
            byte1 == (remaining_len % 128) + 128
            byte2 == byte2_data % 128
        IN [res |-> Ok(2), out |-> <<U8(byte1), U8(byte2)>>]
    ELSE IF remaining_len < THREE_BYTE_MAX_LEN THEN
        LET byte2_data == remaining_len \div 128
            byte3_data == byte2_data \div 128
            byte1 == (remaining_len % 128) + 128
            byte2 == (byte2_data % 128) + 128
            byte3 == byte3_data % 128
        IN [res |-> Ok(3), out |-> <<U8(byte1), U8(byte2), U8(byte3)>>]
    ELSE IF remaining_len < FOUR_BYTE_MAX_LEN THEN
        LET byte2_data == remaining_len \div 128
            byte3_data == byte2_data \div 128
            byte4_data == byte3_data \div 128
            byte1 == (remaining_len % 128) + 128
            byte2 == (byte2_data % 128) + 128
            byte3 == byte3_data % 128
            byte4 == byte4_data % 128
        IN [res |-> Ok(4), out |-> <<U8(byte1), U8(byte2), U8(byte3), U8(byte4)>>]
    ELSE [res |-> Err("OutOfMaxRemainingLength", remaining_len), out |-> <<>>]

encode_remaining_len(remaining_len) ==
    IF remaining_len < ONE_BYTE_MAX_LEN THEN
        [res |-> Ok(1), out |-> <<U8(remaining_len)>>]
    ELSE IF remaining_len < TWO_BYTE_MAX_LEN THEN
        LET byte2_data == remaining_len \div 128
            byte1 == (remaining_len % 128) + 128
            byte2 == byte2_data % 128
        IN [res |-> Ok(2), out |-> <<U8(byte1), U8(byte2)>>]
    ELSE IF remaining_len < THREE_BYTE_MAX_LEN THEN
        LET byte2_data == remaining_len \div 128
            byte3_data == byte2_data \div 128
            byte1 == (remaining_len % 128) + 128
            byte2 == (byte2_data % 128) + 128
            byte3 == byte3_data % 128
        IN [res |-> Ok(3), out |-> <<U8(byte1), U8(byte2), U8(byte3)>>]
    ELSE IF remaining_len < FOUR_BYTE_MAX_LEN THEN
        LET byte2_data == remaining_len \div 128
            byte3_data == byte2_data \div 128
            byte4_data == byte3_data \div 128
            byte1 == (remaining_len % 128) + 128
            byte2 == (byte2_data % 128) + 128
            byte3 == (byte3_data % 128) + 128
            byte4 == byte4_data % 128
        IN [res |-> Ok(4), out |-> <<U8(byte1), U8(byte2), U8(byte3), U8(byte4)>>]
    ELSE [res |-> Err("OutOfMaxRemainingLength", remaining_len), out |-> <<>>]

-----------------------------------------------------------------------------
(* Fixed header value and its builder (fixed_header.rs) *)

FixedHeader(message_type, dup, qos, retain, remaining_length, len) ==
    [message_type |-> message_type, dup |-> dup, qos |-> qos, retain |-> retain,
     remaining_length |-> remaining_length, len |-> len]

set_remaining_length(fh, remaining_length) ==
    [fh EXCEPT !.remaining_length = remaining_length]

set_len(fh, len) == [fh EXCEPT !.len = len]

FixedHeaderBuilder_new ==
    [message_type |-> "CONNECT", dup |-> Some(FALSE), qos |-> None,
     retain |-> Some(FALSE), remaining_length |-> 0]

FixedHeaderBuilder_from_message_type(message_type) ==
    [message_type |-> message_type, dup |-> None, qos |-> None,
     retain |-> None, remaining_length |-> 0]

\* The fourteen type setters: connect(), conn_ack(), ..., un_suback().
FixedHeaderBuilder_type(b, message_type) ==
    IF message_type = "CONNACK" THEN
        [b EXCEPT !.message_type = "CONNACK", !.remaining_length = 2]
    ELSE IF message_type = "SUBSCRIBE" THEN
        [b EXCEPT !.message_type = "SUBSCRIBE", !.qos = Some(QoSAtLeastOnce)]
    ELSE [b EXCEPT !.message_type = message_type]

FixedHeaderBuilder_dup(b, dup) == [b EXCEPT !.dup = dup]
FixedHeaderBuilder_qos(b, qos) == [b EXCEPT !.qos = qos]
FixedHeaderBuilder_retain(b, retain) == [b EXCEPT !.retain = retain]
FixedHeaderBuilder_remaining_length(b, n) == [b EXCEPT !.remaining_length = n]

FixedHeaderBuilder_build(b) ==
    LET resp == remaining_length_len(b.remaining_length)
    IN IF IsOk(resp)
       THEN Ok(FixedHeader(b.message_type, b.dup, b.qos, b.retain,
                           b.remaining_length, resp.val + 1))
       ELSE resp

-----------------------------------------------------------------------------
(* Remaining Length: decoder (decoder.rs) *)

RECURSIVE check_remain_length_loop_mut(_, _, _, _, _, _)
check_remain_length_loop_mut(stream, i, shift, len, fixed_header_len, fixed_header) ==
    IF i > Len(stream) THEN NotKnow
    ELSE LET byte == stream[i]
             len2 == len + (byte % 128) * (2 ^ shift)
             fhl2 == fixed_header_len + 1
         IN IF byte < 128
            THEN Ok(set_len(set_remaining_length(fixed_header, len2), fhl2))
            ELSE IF shift + 7 > 28 THEN NotKnow
            ELSE check_remain_length_loop_mut(stream, i + 1, shift + 7, len2, fhl2,
                                              fixed_header)

\* check_remain_length with the chain limit one byte too long (shift > 28)
check_remain_length_mut(stream, fixed_header) ==
    check_remain_length_loop_mut(stream, 1, 0, 0, 1, fixed_header)

RECURSIVE check_remain_length_loop(_, _, _, _, _, _)
check_remain_length_loop(stream, i, shift, len, fixed_header_len, fixed_header) ==
    IF i > Len(stream) THEN NotKnow                  \* the for loop ended, !done
    ELSE LET byte == stream[i]
             len2 == len + (byte % 128) * (2 ^ shift)
             fhl2 == fixed_header_len + 1
         IN IF byte < 128                            \* done: continuation bit clear
            THEN Ok(set_len(set_remaining_length(fixed_header, len2), fhl2))
            ELSE IF shift + 7 > 21 THEN NotKnow
            ELSE check_remain_length_loop(stream, i + 1, shift + 7, len2, fhl2,
                                          fixed_header)

check_remain_length(stream, fixed_header) ==
    check_remain_length_loop(stream, 1, 0, 0, 1, fixed_header)

-----------------------------------------------------------------------------
(* Inputs of the Remaining Length specification *)

MaxDelta == 2
MaxRawLen == 5

LenBoundaries == {0, 128, 16384, 2097152, 268435456}
LenMiddles == {64, 300, 20000, 3000000, 100000000}
RemLenInputs ==
    LenMiddles \cup
    { x \in { b + d : b \in LenBoundaries, d \in (0 - MaxDelta)..MaxDelta } : x >= 0 }

RawBytes == {0, 1, 127, 128, 129, 255}
RawSeqs == UNION { [1..n -> RawBytes] : n \in 0..MaxRawLen }

-----------------------------------------------------------------------------
(* Specification SpecRemLen: the Remaining Length codec on its own *)

InitIdle ==
    /\ pc = "idle"
    /\ inp = Nothing
    /\ pkt = Nothing
    /\ buf = <<>>
    /\ ret = Nothing
    /\ dec = Nothing

\* encode_remaining_len(n, buffer) on an empty buffer
EncodeRemainingLen ==
    /\ pc = "idle"
    /\ \E n \in RemLenInputs :
        LET e == encode_remaining_len(n)
        IN /\ inp' = [kind |-> "len", n |-> n]
           /\ buf' = e.out
           /\ ret' = e.res
    /\ pc' = "encoded"
    /\ UNCHANGED <<pkt, dec>>

\* the caller received length bytes from the wire
ReceiveLengthBytes ==
    /\ pc = "idle"
    /\ \E s \in RawSeqs :
        /\ inp' = [kind |-> "raw", n |-> 0]
        /\ buf' = s
    /\ pc' = "encoded"
    /\ UNCHANGED <<pkt, ret, dec>>

\* check_remain_length(stream, fixed_header) on the bytes after byte 1
CheckRemainLength ==
    /\ pc = "encoded"
    /\ inp.kind = "raw" \/ IsOk(ret)
    /\ dec' = check_remain_length(buf, FixedHeaderBuilder_build(
                  FixedHeaderBuilder_from_message_type("CONNECT")).val)
    /\ pc' = "decoded"
    /\ UNCHANGED <<inp, pkt, buf, ret>>

NextRemLen == EncodeRemainingLen \/ ReceiveLengthBytes \/ CheckRemainLength

SpecRemLen == InitIdle /\ [][NextRemLen]_vars

-----------------------------------------------------------------------------
(* Claims about the Remaining Length codec, under SpecRemLen *)

\* The minimal base-128 encoding of n: least-significant 7-bit group first,
\* bit 0x80 set on every byte but the last.
RECURSIVE Base128(_)
Base128(n) ==
    IF n < 128 THEN <<n>> ELSE <<(n % 128) + 128>> \o Base128(n \div 128)

EncodedLen == pc = "encoded" /\ inp.kind = "len"
DecodedLen == pc = "decoded" /\ inp.kind = "len"
DecodedRaw == pc = "decoded" /\ inp.kind = "raw"

\* the index of the first byte of s with the continuation bit clear, 0 if none
FirstTerminator(s) ==
    IF \E i \in 1..Len(s) : s[i] < 128
    THEN CHOOSE i \in 1..Len(s) : s[i] < 128 /\ \A j \in 1..(i - 1) : s[j] >= 128
    ELSE 0

\* C6: encode_remaining_len emits the minimal base-128 encoding of every
\* n in 0..=268435455 (1 byte up to 127, 2 up to 16383, 3 up to 2097151,
\* 4 up to 268435455), e.g. 127 as [0x7F] and 128 as [0x80, 0x01].
C6_MinimalEncoding ==
    (EncodedLen /\ inp.n <= 268435455) =>
        /\ IsOk(ret)
        /\ buf = Base128(inp.n)
        /\ ret.val = Len(buf)

\* C8: whenever encode_remaining_len succeeds on n, check_remain_length on the
\* emitted bytes returns remaining_length = n and len = 1 + the number of
\* length bytes emitted.
C8_LengthRoundTrip ==
    DecodedLen =>
        /\ IsOk(dec)
        /\ dec.val.remaining_length = inp.n
        /\ dec.val.len = 1 + Len(buf)
        /\ ret.val = Len(buf)

C8_Witness ==
    /\ DecodedLen
    /\ inp.n = 2097152
    /\ Len(buf) = 4
    /\ IsOk(dec)
    /\ dec.val.remaining_length = 2097152
    /\ dec.val.len = 5

\* C9: check_remain_length accepts a chain of 1 to 4 bytes ending in a byte
\* with bit 0x80 clear, and returns an error when the first 4 bytes all have
\* bit 0x80 set or when the input ends before a byte with bit 0x80 clear.
C9_ChainLimit ==
    DecodedRaw =>
        LET t == FirstTerminator(buf)
        IN /\ (t >= 1 /\ t <= 4) => (IsOk(dec) /\ dec.val.len = 1 + t)
           /\ (t > 4) => IsErr(dec)
           /\ (t = 0) => IsErr(dec)

C9_Witness ==
    /\ DecodedRaw
    /\ Len(buf) = 5
    /\ \A i \in 1..4 : buf[i] >= 128
    /\ buf[5] < 128
    /\ IsErr(dec)

-----------------------------------------------------------------------------
(* Fixed header: encoder (fixed_header.rs, impl Encoder for FixedHeader) *)

\* the do-while loop of connect_fixed_header_encode
RECURSIVE connect_length_loop(_)
connect_length_loop(x) ==
    LET x2 == x \div 128
        byte == IF x2 > 0 THEN (x % 128) + 128 ELSE x % 128
    IN IF x2 = 0 THEN <<byte>> ELSE <<byte>> \o connect_length_loop(x2)

connect_fixed_header_encode(fixed_header) ==
    IF fixed_header.remaining_length > 268435455
    THEN [res |-> Err("OutOfMaxRemainingLength", fixed_header.remaining_length),
          out |-> <<16>>]
    ELSE LET bytes == connect_length_loop(fixed_header.remaining_length)
         IN [res |-> Ok(Len(bytes)), out |-> <<16>> \o bytes]

\* byte1 then encode_remaining_len: subscribe, unsubscribe, unsuback
byte1_then_remaining_len(byte1, fixed_header) ==
    LET e == encode_remaining_len(fixed_header.remaining_length)
    IN [res |-> IF IsOk(e.res) THEN Ok(1 + e.res.val) ELSE e.res,
        out |-> <<byte1>> \o e.out]

publish_fixed_header_encode(fixed_header) ==
    IF ~IsSome(fixed_header.qos) \/ ~IsSome(fixed_header.dup)
       \/ ~IsSome(fixed_header.retain)
    THEN [res |-> Panic, out |-> <<>>]          \* unwrap() on None
    ELSE LET qos == Unwrap(fixed_header.qos)
             b0 == IF qos = QoSAtMostOnce THEN 0
                   ELSE IF qos = QoSAtLeastOnce THEN 48 + 2
                   ELSE 48 + 4
             b1 == IF Unwrap(fixed_header.dup) THEN b0 + 8 ELSE b0
             b2 == IF Unwrap(fixed_header.retain) THEN b1 + 1 ELSE b1
         IN byte1_then_remaining_len(b2, fixed_header)

subscribe_fixed_header_encode(fixed_header) ==
    byte1_then_remaining_len(130, fixed_header)

unsubscribe_fixed_header_encode(fixed_header) ==
    byte1_then_remaining_len(162, fixed_header)

unsuback_fixed_header_encode(fixed_header) ==
    byte1_then_remaining_len(176, fixed_header)

\* the encoders that write two constant bytes and return Ok(2)
constant_fixed_header_encode(message_type) ==
    LET two ==
          CASE message_type = "CONNACK"    -> <<32, 2>>
            [] message_type = "PINGREQ"    -> <<192, 0>>
            [] message_type = "PINGRESP"   -> <<208, 0>>
            [] message_type = "PUBACK"     -> <<64, 2>>
            [] message_type = "PUBREC"     -> <<80, 2>>
            [] message_type = "PUBREL"     -> <<96, 2>>
            [] message_type = "PUBCOMP"    -> <<112, 2>>
            [] message_type = "SUBACK"     -> <<144, 3>>
            [] message_type = "DISCONNECT" -> <<224, 0>>
    IN [res |-> Ok(2), out |-> two]

FixedHeader_encode(fixed_header) ==
    CASE fixed_header.message_type = "CONNECT" ->
            connect_fixed_header_encode(fixed_header)
      [] fixed_header.message_type = "PUBLISH" ->
            publish_fixed_header_encode(fixed_header)
      [] fixed_header.message_type = "SUBSCRIBE" ->
            subscribe_fixed_header_encode(fixed_header)
      [] fixed_header.message_type = "UNSUBSCRIBE" ->
            unsubscribe_fixed_header_encode(fixed_header)
      [] fixed_header.message_type = "UNSUBACK" ->
            unsuback_fixed_header_encode(fixed_header)
      [] OTHER -> constant_fixed_header_encode(fixed_header.message_type)

-----------------------------------------------------------------------------
(* Fixed header: decoder (decoder.rs) *)

check_fixed_header_type(byte1) ==
    LET n == byte1 \div 16
    IN IF n >= 1 /\ n <= 14 THEN Ok(MessageTypes[n]) ELSE NotKnow

\* FixedHeader::check_with_u8 (fixed_header.rs)
FixedHeader_check_with_u8(byte1) ==
    LET n == byte1 \div 16
    IN IF n >= 1 /\ n <= 14 THEN Ok(MessageTypes[n]) ELSE Err("MessageTypeError", n)

\* FixedHeader::check (fixed_header.rs): get_u8 takes the first byte off the
\* buffer (and panics on an empty one), then check_with_u8 classifies it
FixedHeader_check(byte1) ==
    IF Len(byte1) = 0 THEN [res |-> Panic, rest |-> byte1]
    ELSE [res |-> FixedHeader_check_with_u8(byte1[1]), rest |-> Tail(byte1)]

\* check_fixed_header_options with the PUBLISH QoS bits read one bit too low
check_fixed_header_options_mut(byte1, message_type) ==
    LET fixed_header_builder == FixedHeaderBuilder_from_message_type(message_type)
        low_4 == byte1 % 16
        dupbit == Bit(low_4, 3)
        qosbits == low_4 % 4
        retainbit == low_4 % 2
        built(dup, qos, retain) ==
            FixedHeaderBuilder_build(
                FixedHeaderBuilder_retain(
                    FixedHeaderBuilder_qos(
                        FixedHeaderBuilder_dup(fixed_header_builder, dup), qos),
                    retain))
    IN IF message_type = "PUBLISH" THEN
           IF qosbits = 3 THEN Err("QoSError", 3)
           ELSE built(Some(dupbit = 1), Some(qosbits), Some(retainbit = 1))
       ELSE IF message_type \in {"PUBREL", "SUBSCRIBE", "UNSUBSCRIBE"} THEN
           IF (low_4 \div 2) % 4 # 1 THEN NotKnow
           ELSE built(Some(dupbit = 1), None, Some(retainbit = 1))
       ELSE IF low_4 = 0 THEN built(Some(FALSE), None, Some(FALSE))
       ELSE NotKnow

check_fixed_header_options(byte1, message_type) ==
    LET fixed_header_builder == FixedHeaderBuilder_from_message_type(message_type)
        low_4 == byte1 % 16
        dupbit == Bit(low_4, 3)
        qosbits == (low_4 \div 2) % 4
        retainbit == low_4 % 2
        built(dup, qos, retain) ==
            FixedHeaderBuilder_build(
                FixedHeaderBuilder_retain(
                    FixedHeaderBuilder_qos(
                        FixedHeaderBuilder_dup(fixed_header_builder, dup), qos),
                    retain))
    IN IF message_type = "PUBLISH" THEN
           IF qosbits = 3 THEN Err("QoSError", 3)
           ELSE built(Some(dupbit = 1), Some(qosbits), Some(retainbit = 1))
       ELSE IF message_type \in {"PUBREL", "SUBSCRIBE", "UNSUBSCRIBE"} THEN
           IF qosbits # 1 THEN NotKnow
           ELSE built(Some(dupbit = 1), None, Some(retainbit = 1))
       ELSE IF low_4 = 0 THEN built(Some(FALSE), None, Some(FALSE))
       ELSE NotKnow

read_fixed_header(stream) ==
    IF Len(stream) = 0 THEN Panic               \* iter.next().unwrap()
    ELSE LET byte1 == stream[1]
             t == check_fixed_header_type(byte1)
         IN IF ~IsOk(t) THEN t
            ELSE LET o == check_fixed_header_options(byte1, t.val)
                 IN IF ~IsOk(o) THEN o
                    ELSE check_remain_length(Tail(stream), o.val)

-----------------------------------------------------------------------------
(* Specification SpecFixedHeader: FixedHeaderBuilder, FixedHeader::encode   *)
(* and read_fixed_header                                                    *)

MaxRawTail == 2

OptBools == {None, Some(FALSE), Some(TRUE)}
OptQoS == {None} \cup { Some(q) : q \in QoSValues }
HeaderLens == {0, 2, 127, 128, 16383, 268435455, 268435456}
SetLens == {0, 2, 5}
RawHeaders ==
    { <<b>> \o t : b \in 0..255,
                   t \in UNION { [1..n -> RawBytes] : n \in 0..MaxRawTail } }
    \cup {<<>>}

FHBNew ==
    /\ pc = "idle"
    /\ inp' = [kind |-> "fhb", b |-> FixedHeaderBuilder_new]
    /\ pc' = "building"
    /\ UNCHANGED <<pkt, buf, ret, dec>>

FHBType ==
    /\ pc = "building" /\ inp.kind = "fhb"
    /\ \E t \in MessageTypeSet :
        inp' = [inp EXCEPT !.b = FixedHeaderBuilder_type(inp.b, t)]
    /\ UNCHANGED <<pc, pkt, buf, ret, dec>>

FHBDup ==
    /\ pc = "building" /\ inp.kind = "fhb"
    /\ \E d \in OptBools :
        inp' = [inp EXCEPT !.b = FixedHeaderBuilder_dup(inp.b, d)]
    /\ UNCHANGED <<pc, pkt, buf, ret, dec>>

FHBQos ==
    /\ pc = "building" /\ inp.kind = "fhb"
    /\ \E q \in OptQoS :
        inp' = [inp EXCEPT !.b = FixedHeaderBuilder_qos(inp.b, q)]
    /\ UNCHANGED <<pc, pkt, buf, ret, dec>>

FHBRetain ==
    /\ pc = "building" /\ inp.kind = "fhb"
    /\ \E r \in OptBools :
        inp' = [inp EXCEPT !.b = FixedHeaderBuilder_retain(inp.b, r)]
    /\ UNCHANGED <<pc, pkt, buf, ret, dec>>

FHBRemainingLength ==
    /\ pc = "building" /\ inp.kind = "fhb"
    /\ \E n \in HeaderLens :
        inp' = [inp EXCEPT !.b = FixedHeaderBuilder_remaining_length(inp.b, n)]
    /\ UNCHANGED <<pc, pkt, buf, ret, dec>>

FHBBuild ==
    /\ pc = "building" /\ inp.kind = "fhb"
    /\ pkt' = FixedHeaderBuilder_build(inp.b)
    /\ pc' = "built"
    /\ UNCHANGED <<inp, buf, ret, dec>>

\* FixedHeader::set_remaining_length on a built header (as the packet
\* builders do once the payload is known)
FHSetRemainingLength ==
    /\ pc = "built" /\ inp.kind = "fhb" /\ IsOk(pkt)
    /\ \E n \in HeaderLens : pkt' = Ok(set_remaining_length(pkt.val, n))
    /\ UNCHANGED <<pc, inp, buf, ret, dec>>

\* FixedHeader::set_len on a built header: only the field len changes
FHSetLen ==
    /\ pc = "built" /\ inp.kind = "fhb" /\ IsOk(pkt)
    /\ \E len \in SetLens : pkt' = Ok(set_len(pkt.val, len))
    /\ UNCHANGED <<pc, inp, buf, ret, dec>>

FHEncode ==
    /\ pc = "built" /\ inp.kind = "fhb" /\ IsOk(pkt)
    /\ LET e == FixedHeader_encode(pkt.val)
       IN buf' = e.out /\ ret' = e.res
    /\ pc' = "encoded"
    /\ UNCHANGED <<inp, pkt, dec>>

\* bytes arrive from the wire
FHReceive ==
    /\ pc = "idle"
    /\ \E s \in RawHeaders : buf' = s
    /\ inp' = [kind |-> "rawfh"]
    /\ pc' = "encoded"
    /\ UNCHANGED <<pkt, ret, dec>>

FHRead ==
    /\ pc = "encoded" /\ inp.kind \in {"fhb", "rawfh"}
    /\ ~IsPanic(ret)
    /\ dec' = read_fixed_header(buf)
    /\ pc' = "decoded"
    /\ UNCHANGED <<inp, pkt, buf, ret>>

\* FixedHeader::check on the bytes received: the first byte leaves the buffer
FHCheck ==
    /\ pc = "encoded" /\ inp.kind = "rawfh"
    /\ dec' = FixedHeader_check(buf).res
    /\ buf' = FixedHeader_check(buf).rest
    /\ pc' = "checked"
    /\ UNCHANGED <<inp, pkt, ret>>

NextFixedHeader ==
    \/ FHBNew \/ FHBType \/ FHBDup \/ FHBQos \/ FHBRetain \/ FHBRemainingLength
    \/ FHBBuild \/ FHSetRemainingLength \/ FHSetLen \/ FHEncode \/ FHReceive
    \/ FHRead
    \/ FHCheck

SpecFixedHeader == InitIdle /\ [][NextFixedHeader]_vars

-----------------------------------------------------------------------------
(* Claims about the fixed header encoder, under SpecFixedHeader *)

EncodedHeader == pc = "encoded" /\ inp.kind = "fhb" /\ ~IsPanic(ret)

\* the packet types whose encoder writes the header's own remaining length
LengthWritingTypes == {"CONNECT", "PUBLISH", "SUBSCRIBE", "UNSUBSCRIBE", "UNSUBACK"}

TypeTag(message_type) == CHOOSE i \in 1..14 : MessageTypes[i] = message_type

BoolBit(b) == IF b THEN 1 ELSE 0

\* the flag nibble the wire format prescribes for a header
FlagsFor(fh) ==
    IF fh.message_type = "PUBLISH"
    THEN BoolBit(Unwrap(fh.dup)) * 8 + Unwrap(fh.qos) * 2 + BoolBit(Unwrap(fh.retain))
    ELSE IF fh.message_type \in {"PUBREL", "SUBSCRIBE", "UNSUBSCRIBE"} THEN 2
    ELSE 0

\* C7: encoding a fixed header whose remaining length is 268435455 succeeds
\* with 4 length bytes, and encoding a remaining length above 268435455 fails
\* with OutOfMaxRemainingLength.
C7_MaxRemainingLength ==
    (EncodedHeader /\ pkt.val.message_type \in LengthWritingTypes) =>
        /\ (pkt.val.remaining_length = 268435455) => (IsOk(ret) /\ Len(buf) = 5)
        /\ (pkt.val.remaining_length > 268435455) =>
               ret = Err("OutOfMaxRemainingLength", pkt.val.remaining_length)

\* C10: the first byte FixedHeader::encode writes is (type tag << 4) | flags,
\* flags being 0 for the ten fixed-zero types, 0b0010 for PUBREL, SUBSCRIBE
\* and UNSUBSCRIBE, and (dup << 3) | (qos << 1) | retain for PUBLISH.
C10_FirstByte ==
    EncodedHeader =>
        /\ Len(buf) >= 1
        /\ buf[1] = TypeTag(pkt.val.message_type) * 16 + FlagsFor(pkt.val)

-----------------------------------------------------------------------------
(* Claims about the fixed header decoder, under SpecFixedHeader *)

ReadRawHeader == pc = "decoded" /\ inp.kind = "rawfh" /\ Len(buf) >= 1
CheckedRawHeader == pc = "checked" /\ inp.kind = "rawfh"

TopNibble(frame) == frame[1] \div 16
LowNibble(frame) == frame[1] % 16

\* C11: decoding a fixed header whose first byte has top nibble 0 or 15 fails
\* with MessageTypeError, and top nibbles 1..14 map in order to CONNECT,
\* CONNACK, PUBLISH, ..., DISCONNECT.
C11_TypeNibble ==
    /\ ReadRawHeader =>
          /\ TopNibble(buf) \in {0, 15} => dec = Err("MessageTypeError", TopNibble(buf))
          /\ (TopNibble(buf) \in 1..14 /\ IsOk(dec)) =>
                 dec.val.message_type = MessageTypes[TopNibble(buf)]
    /\ CheckedRawHeader =>
          \/ dec = Panic /\ buf = <<>>
          \/ \E n \in {0, 15} : dec = Err("MessageTypeError", n)
          \/ \E n \in 1..14 : dec = Ok(MessageTypes[n])

\* FixedHeader::check classifies the first byte it is given by its top nibble
\* and leaves the rest of the buffer; on an empty buffer it panics
FHCheck_TypeNibble ==
    [][(pc = "encoded" /\ pc' = "checked") =>
          IF buf = <<>> THEN dec' = Panic /\ buf' = buf
          ELSE /\ buf' = Tail(buf)
               /\ TopNibble(buf) \in {0, 15} =>
                      dec' = Err("MessageTypeError", TopNibble(buf))
               /\ TopNibble(buf) \in 1..14 =>
                      dec' = Ok(MessageTypes[TopNibble(buf)])]_vars

\* a state where FixedHeader::check has taken the first byte of a two-byte
\* header and named its type
FHCheck_Consumed ==
    CheckedRawHeader /\ Len(buf) = 1 /\ dec = Ok("CONNECT")

\* whether the length bytes after byte 1 form a chain of 1 to 4 bytes
ValidLengthChain(frame) ==
    FirstTerminator(Tail(frame)) >= 1 /\ FirstTerminator(Tail(frame)) <= 4

\* C12: decoding a PUBLISH first byte accepts every combination of dup,
\* retain and QoS bits 00/01/10, yielding those values, and fails with
\* QoSError exactly when the two QoS bits are 11.
C12_PublishFlags ==
    (ReadRawHeader /\ TopNibble(buf) = 3) =>
        LET qosbits == (LowNibble(buf) \div 2) % 4
        IN /\ (dec = Err("QoSError", 3)) <=> (qosbits = 3)
           /\ (qosbits # 3 /\ ValidLengthChain(buf)) =>
                 /\ IsOk(dec)
                 /\ dec.val.dup = Some(LowNibble(buf) >= 8)
                 /\ dec.val.qos = Some(qosbits)
                 /\ dec.val.retain = Some(LowNibble(buf) % 2 = 1)

C12_Witness ==
    /\ ReadRawHeader
    /\ buf[1] = 61
    /\ IsOk(dec)
    /\ dec.val.dup = Some(TRUE)
    /\ dec.val.qos = Some(QoSExactlyOnce)
    /\ dec.val.retain = Some(TRUE)

\* C13: decoding a PUBREL, SUBSCRIBE or UNSUBSCRIBE fixed header succeeds only
\* when the low nibble of byte 1 is exactly 0b0010; every other low nibble
\* (0b1010, 0b0011, 0b1011 included) is rejected with an error.
C13_ReservedFlags ==
    (ReadRawHeader /\ TopNibble(buf) \in {6, 8, 10}) =>
        /\ IsOk(dec) => LowNibble(buf) = 2
        /\ LowNibble(buf) # 2 => IsErr(dec)

-----------------------------------------------------------------------------
(* Byte-level readers and writers (decoder.rs) *)

IsCont(b) == b >= 128 /\ b <= 191

\* String::from_utf8: whether the bytes are well-formed UTF-8
RECURSIVE Utf8Valid(_)
Utf8Valid(s) ==
    IF \A i \in 1..Len(s) : s[i] < 128 THEN TRUE      \* ASCII only
    ELSE LET b == s[1]
             n == Len(s)
         IN IF b < 128 THEN Utf8Valid(Drop(s, 1))
            ELSE IF b >= 194 /\ b <= 223 THEN
                n >= 2 /\ IsCont(s[2]) /\ Utf8Valid(Drop(s, 2))
            ELSE IF b >= 224 /\ b <= 239 THEN
                /\ n >= 3
                /\ IsCont(s[2]) /\ IsCont(s[3])
                /\ (b = 224) => s[2] >= 160
                /\ (b = 237) => s[2] <= 159
                /\ Utf8Valid(Drop(s, 3))
            ELSE IF b >= 240 /\ b <= 244 THEN
                /\ n >= 4
                /\ IsCont(s[2]) /\ IsCont(s[3]) /\ IsCont(s[4])
                /\ (b = 240) => s[2] >= 144
                /\ (b = 244) => s[2] <= 143
                /\ Utf8Valid(Drop(s, 4))
            ELSE FALSE

\* Each reader returns the result and the stream that is left.
read_u8(stream) ==
    IF Len(stream) = 0 THEN [res |-> NotKnow, rest |-> stream]
    ELSE [res |-> Ok(stream[1]), rest |-> Drop(stream, 1)]

read_u16(stream) ==
    IF Len(stream) < 2 THEN [res |-> NotKnow, rest |-> stream]
    ELSE [res |-> Ok(stream[1] * 256 + stream[2]), rest |-> Drop(stream, 2)]

read_mqtt_bytes(stream) ==
    LET l == read_u16(stream)
    IN IF ~IsOk(l.res) THEN l
       ELSE IF l.res.val > Len(l.rest) THEN [res |-> NotKnow, rest |-> l.rest]
       ELSE [res |-> Ok(Take(l.rest, l.res.val)), rest |-> Drop(l.rest, l.res.val)]

read_mqtt_string(stream) ==
    LET s == read_mqtt_bytes(stream)
    IN IF ~IsOk(s.res) THEN s
       ELSE IF Utf8Valid(s.res.val) THEN s
       ELSE [res |-> NotKnow, rest |-> s.rest]

put_u16(x) == <<Hi(x), Lo(x)>>

write_mqtt_bytes(bytes) == put_u16(Len(bytes)) \o bytes

write_mqtt_string(string) == write_mqtt_bytes(string)

-----------------------------------------------------------------------------
(* CONNECT (connect.rs) *)

PROTOCOL_NAME == <<77, 81, 84, 84>>             \* "MQTT"

ConnectFlags(username_flag, password_flag, will_retain, will_qos, will_flag, clean_session) ==
    [username_flag |-> username_flag, password_flag |-> password_flag,
     will_retain |-> will_retain, will_qos |-> will_qos, will_flag |-> will_flag,
     clean_session |-> clean_session]

ConnectFlags_from_u8(byte) ==
    LET will_qos_value == (byte \div 8) % 4
    IN IF will_qos_value = 3 THEN Err("QoSError", will_qos_value)
       ELSE Ok(ConnectFlags(Bit(byte, 7) = 1, Bit(byte, 6) = 1, Bit(byte, 5) = 1,
                            will_qos_value, Bit(byte, 2) = 1, Bit(byte, 1) = 1))

ConnectVariableHeader(protocol_name, protocol_level, connect_flags, keep_alive) ==
    [protocol_name |-> protocol_name, protocol_level |-> protocol_level,
     connect_flags |-> connect_flags, keep_alive |-> keep_alive]

Login(username, password) == [username |-> username, password |-> password]

Login_len(login) ==
    (IF Len(login.username) # 0 THEN 2 + Len(login.username) ELSE 0)
    + (IF Len(login.password) # 0 THEN 2 + Len(login.password) ELSE 0)

Login_write(login) ==
    (IF Len(login.username) # 0 THEN write_mqtt_string(login.username) ELSE <<>>)
    \o (IF Len(login.password) # 0 THEN write_mqtt_string(login.password) ELSE <<>>)

LastWill(topic_name, message, qos, retain) ==
    [topic_name |-> topic_name, message |-> message, qos |-> qos, retain |-> retain]

LastWill_len(last_will) == 2 + Len(last_will.topic_name) + 2 + Len(last_will.message)

LastWill_write(last_will) ==
    write_mqtt_string(last_will.topic_name) \o write_mqtt_bytes(last_will.message)

Connect(fixed_header, variable_header, client_id, last_will, login) ==
    [fixed_header |-> fixed_header, variable_header |-> variable_header,
     client_id |-> client_id, last_will |-> last_will, login |-> login]

Connect_len(c) ==
    2 + Len(PROTOCOL_NAME) + 1 + 1 + 2
    + 2 + Len(c.client_id)
    + (IF IsSome(c.last_will) THEN LastWill_len(Unwrap(c.last_will)) ELSE 0)
    + (IF IsSome(c.login) THEN Login_len(Unwrap(c.login)) ELSE 0)

\* the connect-flags byte of Connect::encode without the login bits
Connect_flags_byte_mut(c) ==
    (IF c.variable_header.connect_flags.clean_session THEN 2 ELSE 0)
    + (IF c.variable_header.connect_flags.will_retain THEN 32 ELSE 0)
    + (IF c.variable_header.connect_flags.will_qos = QoSAtLeastOnce THEN 8
       ELSE IF c.variable_header.connect_flags.will_qos = QoSExactlyOnce THEN 16
       ELSE 0)
    + (IF IsSome(c.last_will) THEN 4 ELSE 0)

\* the connect-flags byte computed by Connect::encode
Connect_flags_byte(c) ==
    (IF c.variable_header.connect_flags.clean_session THEN 2 ELSE 0)
    + (IF IsSome(c.login) THEN 192 ELSE 0)
    + (IF c.variable_header.connect_flags.will_retain THEN 32 ELSE 0)
    + (IF c.variable_header.connect_flags.will_qos = QoSAtLeastOnce THEN 8
       ELSE IF c.variable_header.connect_flags.will_qos = QoSExactlyOnce THEN 16
       ELSE 0)
    + (IF IsSome(c.last_will) THEN 4 ELSE 0)

Connect_encode(c) ==
    LET h == FixedHeader_encode(c.fixed_header)
    IN IF ~IsOk(h.res) THEN [res |-> Panic, out |-> h.out]   \* encode(..).unwrap()
       ELSE [res |-> Ok(Connect_len(c)),
             out |-> h.out
                     \o write_mqtt_string(PROTOCOL_NAME)
                     \o <<IF c.variable_header.protocol_level = "V4" THEN 4 ELSE 5>>
                     \o <<Connect_flags_byte(c)>>
                     \o put_u16(c.variable_header.keep_alive)
                     \o write_mqtt_string(c.client_id)
                     \o (IF IsSome(c.last_will)
                         THEN LastWill_write(Unwrap(c.last_will)) ELSE <<>>)
                     \o (IF IsSome(c.login)
                         THEN Login_write(Unwrap(c.login)) ELSE <<>>)]

\* ConnectVariableHeader::decode taking every level other than 4 as V5
ConnectVariableHeader_decode_mut(stream) ==
    LET name == read_mqtt_string(stream)
    IN IF ~IsOk(name.res) THEN [res |-> NotKnow, rest |-> name.rest]
       ELSE IF name.res.val # PROTOCOL_NAME THEN [res |-> NotKnow, rest |-> name.rest]
       ELSE LET level == read_u8(name.rest)
            IN IF ~IsOk(level.res) THEN [res |-> Panic, rest |-> level.rest]
               ELSE LET fl == read_u8(level.rest)
                    IN IF ~IsOk(fl.res) THEN fl
                       ELSE LET connect_flags == ConnectFlags_from_u8(fl.res.val)
                                ka == read_u16(fl.rest)
                            IN IF ~IsOk(ka.res) THEN ka
                               ELSE IF ~IsOk(connect_flags)
                                    THEN [res |-> connect_flags, rest |-> ka.rest]
                               ELSE [res |-> Ok(ConnectVariableHeader(
                                                PROTOCOL_NAME,
                                                IF level.res.val = 4 THEN "V4" ELSE "V5",
                                                connect_flags.val, ka.res.val)),
                                     rest |-> ka.rest]

ConnectVariableHeader_decode(stream) ==
    LET name == read_mqtt_string(stream)
    IN IF ~IsOk(name.res) THEN [res |-> NotKnow, rest |-> name.rest]
       ELSE IF name.res.val # PROTOCOL_NAME THEN [res |-> NotKnow, rest |-> name.rest]
       ELSE LET level == read_u8(name.rest)
            IN IF ~IsOk(level.res) THEN [res |-> Panic, rest |-> level.rest]
               ELSE IF level.res.val \notin {4, 5} THEN [res |-> NotKnow, rest |-> level.rest]
               ELSE LET fl == read_u8(level.rest)
                    IN IF ~IsOk(fl.res) THEN fl
                       ELSE LET connect_flags == ConnectFlags_from_u8(fl.res.val)
                                ka == read_u16(fl.rest)
                            IN IF ~IsOk(ka.res) THEN ka
                               ELSE IF ~IsOk(connect_flags)
                                    THEN [res |-> connect_flags, rest |-> ka.rest]
                               ELSE [res |-> Ok(ConnectVariableHeader(
                                                PROTOCOL_NAME,
                                                IF level.res.val = 4 THEN "V4" ELSE "V5",
                                                connect_flags.val, ka.res.val)),
                                     rest |-> ka.rest]

\* [res |-> Ok(Option<LastWill>) or Panic, rest]
LastWill_read_last_will(stream, connect_flags) ==
    IF ~connect_flags.will_flag THEN [res |-> Ok(None), rest |-> stream]
    ELSE LET t == read_mqtt_string(stream)
         IN IF ~IsOk(t.res) THEN [res |-> Panic, rest |-> t.rest]
            ELSE LET m == read_mqtt_bytes(t.rest)
                 IN IF ~IsOk(m.res) THEN [res |-> Panic, rest |-> m.rest]
                    ELSE [res |-> Ok(Some(LastWill(t.res.val, m.res.val,
                                                   connect_flags.will_qos,
                                                   connect_flags.will_retain))),
                          rest |-> m.rest]

\* [res |-> Ok(Option<Login>) or Panic, rest]
Login_read_login(stream, connect_flags) ==
    LET u == IF connect_flags.username_flag THEN read_mqtt_string(stream)
             ELSE [res |-> Ok(<<>>), rest |-> stream]
    IN IF ~IsOk(u.res) THEN [res |-> Panic, rest |-> u.rest]
       ELSE LET p == IF connect_flags.password_flag THEN read_mqtt_string(u.rest)
                     ELSE [res |-> Ok(<<>>), rest |-> u.rest]
            IN IF ~IsOk(p.res) THEN [res |-> Panic, rest |-> p.rest]
               ELSE IF Len(u.res.val) = 0 /\ Len(p.res.val) = 0
                    THEN [res |-> Ok(None), rest |-> p.rest]
               ELSE [res |-> Ok(Some(Login(u.res.val, p.res.val))), rest |-> p.rest]

Connect_decode(bytes) ==
    LET fh == read_fixed_header(bytes)
    IN IF IsPanic(fh) THEN Panic
       ELSE IF ~IsOk(fh) THEN NotKnow
       ELSE LET vh == ConnectVariableHeader_decode(Drop(bytes, fh.val.len))
            IN IF ~IsOk(vh.res) THEN vh.res
               ELSE LET cid == read_mqtt_string(vh.rest)
                    IN IF ~IsOk(cid.res) THEN cid.res
                       ELSE LET lw == LastWill_read_last_will(
                                          cid.rest, vh.res.val.connect_flags)
                            IN IF ~IsOk(lw.res) THEN lw.res
                               ELSE LET lg == Login_read_login(
                                                  lw.rest, vh.res.val.connect_flags)
                                    IN IF ~IsOk(lg.res) THEN lg.res
                                       ELSE Ok(Connect(fh.val, vh.res.val, cid.res.val,
                                                       lw.res.val, lg.res.val))

-----------------------------------------------------------------------------
(* ConnectBuilder (builder.rs) *)

ConnectBuilder_new ==
    [protocol_level |-> "V4", keep_alive |-> 60, client_id |-> <<>>,
     clean_session |-> FALSE, username |-> None, password |-> None,
     will_qos |-> QoSAtMostOnce, will_topic |-> None, retain |-> FALSE,
     will_message |-> None]

ConnectBuilder_build(b) ==
    LET will_flag == IsSome(b.will_topic) /\ IsSome(b.will_message)
        conn_flags == ConnectFlags(FALSE, FALSE, FALSE, QoSAtMostOnce, will_flag, FALSE)
        variable_header ==
            ConnectVariableHeader(PROTOCOL_NAME, b.protocol_level, conn_flags,
                                  b.keep_alive)
        login == IF IsSome(b.username) /\ IsSome(b.password)
                 THEN Some(Login(Unwrap(b.username), Unwrap(b.password)))
                 ELSE None
        login_len == IF IsSome(login) THEN Login_len(Unwrap(login)) ELSE 0
        last_will == IF IsSome(b.will_topic)
                     THEN Some(LastWill(Unwrap(b.will_topic), Unwrap(b.will_message),
                                        b.will_qos, b.retain))
                     ELSE None
        last_will_len == IF IsSome(last_will) THEN LastWill_len(Unwrap(last_will)) ELSE 0
        remaining_length ==
            2 + Len(PROTOCOL_NAME) + 1 + 1 + 2 + 2 + Len(b.client_id)
            + last_will_len + login_len
        fixed_header ==
            FixedHeaderBuilder_build(
                FixedHeaderBuilder_remaining_length(
                    FixedHeaderBuilder_retain(
                        FixedHeaderBuilder_qos(
                            FixedHeaderBuilder_dup(
                                FixedHeaderBuilder_type(FixedHeaderBuilder_new, "CONNECT"),
                                Some(FALSE)),
                            Some(QoSAtMostOnce)),
                        Some(FALSE)),
                    remaining_length))
    IN IF IsSome(b.will_topic) /\ ~IsSome(b.will_message)
       THEN Panic                                  \* self.will_message.unwrap()
       ELSE IF IsOk(fixed_header)
            THEN Ok(Connect(fixed_header.val, variable_header, b.client_id,
                            last_will, login))
            ELSE fixed_header

-----------------------------------------------------------------------------
(* Specification SpecConnect: ConnectBuilder, Connect::encode, Connect::decode *)

MaxStrLen == 1

\* the strings of at most MaxStrLen copies of one character
Strs(ch) == { [i \in 1..n |-> ch] : n \in 0..MaxStrLen }

KeepAlives == {10, 65535}
ProtocolLevels == {"V4", "V5"}
ClientIds == Strs(99)
Usernames == Strs(117)
Passwords == Strs(112)
WillTopics == Strs(116)
WillMessages == Strs(109)

ConnectBuilding == pc = "building" /\ inp.kind = "connect"

CBNew ==
    /\ pc = "idle"
    /\ inp' = [kind |-> "connect", b |-> ConnectBuilder_new]
    /\ pc' = "building"
    /\ UNCHANGED <<pkt, buf, ret, dec>>

CBProtocolLevel ==
    /\ ConnectBuilding
    /\ \E v \in ProtocolLevels : inp' = [inp EXCEPT !.b.protocol_level = v]
    /\ UNCHANGED <<pc, pkt, buf, ret, dec>>

CBKeepAlive ==
    /\ ConnectBuilding
    /\ \E v \in KeepAlives : inp' = [inp EXCEPT !.b.keep_alive = v]
    /\ UNCHANGED <<pc, pkt, buf, ret, dec>>

CBClientId ==
    /\ ConnectBuilding
    /\ \E v \in ClientIds : inp' = [inp EXCEPT !.b.client_id = v]
    /\ UNCHANGED <<pc, pkt, buf, ret, dec>>

CBCleanSession ==
    /\ ConnectBuilding
    /\ \E v \in BOOLEAN : inp' = [inp EXCEPT !.b.clean_session = v]
    /\ UNCHANGED <<pc, pkt, buf, ret, dec>>

CBUsername ==
    /\ ConnectBuilding
    /\ \E v \in Usernames : inp' = [inp EXCEPT !.b.username = Some(v)]
    /\ UNCHANGED <<pc, pkt, buf, ret, dec>>

CBPassword ==
    /\ ConnectBuilding
    /\ \E v \in Passwords : inp' = [inp EXCEPT !.b.password = Some(v)]
    /\ UNCHANGED <<pc, pkt, buf, ret, dec>>

CBWillQos ==
    /\ ConnectBuilding
    /\ \E v \in QoSValues : inp' = [inp EXCEPT !.b.will_qos = v]
    /\ UNCHANGED <<pc, pkt, buf, ret, dec>>

CBWillTopic ==
    /\ ConnectBuilding
    /\ \E v \in WillTopics : inp' = [inp EXCEPT !.b.will_topic = Some(v)]
    /\ UNCHANGED <<pc, pkt, buf, ret, dec>>

CBRetain ==
    /\ ConnectBuilding
    /\ \E v \in BOOLEAN : inp' = [inp EXCEPT !.b.retain = v]
    /\ UNCHANGED <<pc, pkt, buf, ret, dec>>

CBWillMessage ==
    /\ ConnectBuilding
    /\ \E v \in WillMessages : inp' = [inp EXCEPT !.b.will_message = Some(v)]
    /\ UNCHANGED <<pc, pkt, buf, ret, dec>>

CBBuild ==
    /\ ConnectBuilding
    /\ pkt' = ConnectBuilder_build(inp.b)
    /\ pc' = "built"
    /\ UNCHANGED <<inp, buf, ret, dec>>

ConnectEncode ==
    /\ pc = "built" /\ inp.kind = "connect" /\ IsOk(pkt)
    /\ LET e == Connect_encode(pkt.val)
       IN buf' = e.out /\ ret' = e.res
    /\ pc' = "encoded"
    /\ UNCHANGED <<inp, pkt, dec>>

ConnectDecode ==
    /\ pc = "encoded" /\ inp.kind = "connect" /\ IsOk(ret)
    /\ dec' = Connect_decode(buf)
    /\ pc' = "decoded"
    /\ UNCHANGED <<inp, pkt, buf, ret>>

NextConnect ==
    \/ CBNew \/ CBProtocolLevel \/ CBKeepAlive \/ CBClientId \/ CBCleanSession
    \/ CBUsername \/ CBPassword \/ CBWillQos \/ CBWillTopic \/ CBRetain
    \/ CBWillMessage \/ CBBuild \/ ConnectEncode \/ ConnectDecode

SpecConnect == InitIdle /\ [][NextConnect]_vars

-----------------------------------------------------------------------------
(* Claims about CONNECT, under SpecConnect *)

ConnectDecoded == pc = "decoded" /\ inp.kind = "connect"

\* C1: for every Connect p that ConnectBuilder::build returns, Connect::decode
\* of the bytes p.encode wrote succeeds and equals p on every field (fixed
\* header, variable header, client_id, last_will, login).
C1_ConnectRoundTrip ==
    ConnectDecoded => (IsOk(dec) /\ dec.val = pkt.val)

BuiltConnect == pc = "built" /\ inp.kind = "connect" /\ IsOk(pkt)

\* C18: for every Connect built by ConnectBuilder::build,
\* fixed_header.remaining_length = 10 + (2 + len(client_id))
\* + (2 + len(will_topic) + 2 + len(will_message) when a will is set)
\* + (2 + len(username) + 2 + len(password) when username and password are
\* set), empty strings included.
C18_ConnectRemainingLength ==
    BuiltConnect =>
        pkt.val.fixed_header.remaining_length =
            10 + (2 + Len(inp.b.client_id))
            + (IF IsSome(inp.b.will_topic) /\ IsSome(inp.b.will_message)
               THEN 2 + Len(Unwrap(inp.b.will_topic))
                    + 2 + Len(Unwrap(inp.b.will_message))
               ELSE 0)
            + (IF IsSome(inp.b.username) /\ IsSome(inp.b.password)
               THEN 2 + Len(Unwrap(inp.b.username))
                    + 2 + Len(Unwrap(inp.b.password))
               ELSE 0)

-----------------------------------------------------------------------------
(* Specification SpecConnectWire: Connect::decode on CONNECT frames in which *)
(* one byte was replaced by an arbitrary byte                               *)

ConnectDecodeTampered ==
    /\ pc = "encoded" /\ inp.kind = "connect" /\ IsOk(ret)
    /\ \E i \in 1..Len(buf), v \in 0..255 :
          /\ buf' = [buf EXCEPT ![i] = v]
          /\ dec' = Connect_decode([buf EXCEPT ![i] = v])
    /\ pc' = "decoded_tampered"
    /\ UNCHANGED <<inp, pkt, ret>>

\* the bytes of a CONNECT frame of level 4 with keep alive 60 that carries
\* the will fields, the username and the password its flag bits announce
ConnectFrame(f) ==
    LET flags == (IF f.username_flag THEN 128 ELSE 0)
                 + (IF f.password_flag THEN 64 ELSE 0)
                 + (IF f.will_flag THEN 4 ELSE 0)
        body == write_mqtt_string(PROTOCOL_NAME) \o <<4, flags>> \o put_u16(60)
                \o write_mqtt_string(f.client_id)
                \o (IF f.will_flag
                    THEN write_mqtt_string(f.will_topic) \o write_mqtt_bytes(f.will_message)
                    ELSE <<>>)
                \o (IF f.username_flag THEN write_mqtt_string(f.username) ELSE <<>>)
                \o (IF f.password_flag THEN write_mqtt_string(f.password) ELSE <<>>)
    IN <<16, Len(body)>> \o body

ConnectDecodeFrame ==
    /\ pc = "idle"
    /\ \E wf \in BOOLEAN, uf \in BOOLEAN, pf \in BOOLEAN, c \in ClientIds, t \in WillTopics, m \in WillMessages, u \in Usernames, p \in Passwords :
          LET f == [kind |-> "connectframe", will_flag |-> wf, username_flag |-> uf,
                    password_flag |-> pf, client_id |-> c, will_topic |-> t,
                    will_message |-> m, username |-> u, password |-> p]
          IN /\ inp' = f
             /\ buf' = ConnectFrame(f)
             /\ dec' = Connect_decode(ConnectFrame(f))
    /\ pc' = "decoded_frame"
    /\ UNCHANGED <<pkt, ret>>

\* Specification SpecConnectFrame: Connect::decode on well-formed CONNECT
\* frames of every flag combination
SpecConnectFrame == InitIdle /\ [][ConnectDecodeFrame]_vars

NextConnectWire ==
    \/ CBNew \/ CBProtocolLevel \/ CBClientId \/ CBBuild \/ ConnectEncode
    \/ ConnectDecodeTampered

SpecConnectWire == InitIdle /\ [][NextConnectWire]_vars

\* the bytes of a frame after its fixed header
AfterFixedHeader(frame) == Drop(frame, 1 + FirstTerminator(Tail(frame)))

\* the protocol name string a CONNECT frame carries, None when the frame has
\* no complete string there
FrameProtocolName(frame) ==
    LET s == AfterFixedHeader(frame)
    IN IF Len(s) >= 2 /\ Len(s) >= 2 + s[1] * 256 + s[2]
       THEN Some(SubSeq(s, 3, 2 + s[1] * 256 + s[2]))
       ELSE None

\* the protocol level byte of a CONNECT frame whose name is "MQTT"
FrameProtocolLevel(frame) ==
    LET s == AfterFixedHeader(frame)
    IN IF Len(s) >= 7 THEN Some(s[7]) ELSE None

ConnectFrameDecoded == pc = "decoded_tampered" /\ inp.kind = "connect"

\* C17: Connect::decode returns an error for every frame whose protocol name
\* is not exactly "MQTT" and for every frame whose protocol level byte is
\* neither 4 nor 5; a frame that decodes has level 4 and version V4 or
\* level 5 and version V5.
C17_ProtocolNameAndLevel ==
    ConnectFrameDecoded =>
        /\ FrameProtocolName(buf) # Some(PROTOCOL_NAME) => IsErr(dec)
        /\ (/\ FrameProtocolName(buf) = Some(PROTOCOL_NAME)
            /\ IsSome(FrameProtocolLevel(buf))
            /\ Unwrap(FrameProtocolLevel(buf)) \notin {4, 5}) => IsErr(dec)
        /\ IsOk(dec) =>
              \/ /\ FrameProtocolLevel(buf) = Some(4)
                 /\ dec.val.variable_header.protocol_level = "V4"
              \/ /\ FrameProtocolLevel(buf) = Some(5)
                 /\ dec.val.variable_header.protocol_level = "V5"

C17_Witness ==
    /\ ConnectFrameDecoded
    /\ FrameProtocolName(buf) = Some(PROTOCOL_NAME)
    /\ FrameProtocolLevel(buf) = Some(6)
    /\ dec = NotKnow

-----------------------------------------------------------------------------
(* PUBLISH (publish.rs) and PublishBuilder (builder.rs) *)

PublishVariableHeader_variable_len(topic, qos) ==
    IF IsSome(qos)
    THEN IF Unwrap(qos) = QoSAtMostOnce THEN Len(topic) + 2 ELSE Len(topic) + 4
    ELSE Len(topic) + 2

PublishVariableHeader_new(topic, message_id, qos) ==
    [variable_header_len |-> PublishVariableHeader_variable_len(topic, qos),
     topic |-> topic, message_id |-> message_id]

Publish(fixed_header, variable_header, payload) ==
    [fixed_header |-> fixed_header, variable_header |-> variable_header,
     payload |-> payload]

Publish_update(p, message_id) ==
    [p EXCEPT !.variable_header.message_id = Some(message_id)]

PublishVariableHeader_encode(vh) ==
    [res |-> Ok(vh.variable_header_len),
     out |-> put_u16(Len(vh.topic)) \o vh.topic
             \o (IF IsSome(vh.message_id) THEN put_u16(Unwrap(vh.message_id))
                 ELSE <<>>)]

Publish_encode(p) ==
    LET h == FixedHeader_encode(p.fixed_header)
        v == PublishVariableHeader_encode(p.variable_header)
    IN IF IsPanic(h.res) \/ ~IsSome(p.fixed_header.qos)
       THEN [res |-> Panic, out |-> h.out]
       ELSE IF ~IsOk(h.res) THEN h
       ELSE [res |-> Ok(h.res.val + v.res.val + Len(p.payload)),
             out |-> h.out \o v.out \o p.payload]

PublishVariableHeader_decode(bytes, qos) ==
    LET t == read_mqtt_string(bytes)
    IN IF ~IsOk(t.res) THEN t
       ELSE IF ~IsSome(qos)
            THEN [res |-> Ok(PublishVariableHeader_new(t.res.val, None, None)),
                  rest |-> t.rest]
       ELSE IF Unwrap(qos) = QoSAtMostOnce
            THEN [res |-> Ok(PublishVariableHeader_new(t.res.val, None,
                                                       Some(QoSAtMostOnce))),
                  rest |-> t.rest]
       ELSE LET m == read_u16(t.rest)
            IN IF ~IsOk(m.res) THEN [res |-> Panic, rest |-> m.rest]
               ELSE [res |-> Ok(PublishVariableHeader_new(t.res.val,
                                                          Some(m.res.val), qos)),
                     rest |-> m.rest]

Publish_decode(bytes) ==
    LET fh == read_fixed_header(bytes)
    IN IF ~IsOk(fh) THEN fh
       ELSE LET vh == PublishVariableHeader_decode(Drop(bytes, fh.val.len),
                                                   fh.val.qos)
            IN IF ~IsOk(vh.res) THEN vh.res
               ELSE Ok(Publish(fh.val, vh.res.val, vh.rest))

PublishBuilder_new ==
    [topic |-> <<>>, message_id |-> None, qos |-> QoSAtMostOnce,
     retain |-> FALSE, dup |-> FALSE, payload |-> <<>>]

\* PublishBuilder::build handing the builder's message_id on at every QoS
PublishBuilder_build_mut(b) ==
    LET fixed_header ==
            FixedHeaderBuilder_build(
                FixedHeaderBuilder_qos(
                    FixedHeaderBuilder_retain(
                        FixedHeaderBuilder_dup(
                            FixedHeaderBuilder_type(FixedHeaderBuilder_new, "PUBLISH"),
                            Some(b.dup)),
                        Some(b.retain)),
                    Some(b.qos)))
        variable_header == PublishVariableHeader_new(b.topic, b.message_id, Some(b.qos))
        remaining_length == variable_header.variable_header_len + Len(b.payload)
    IN IF IsOk(fixed_header)
       THEN Ok(Publish(set_remaining_length(fixed_header.val, remaining_length),
                       variable_header, b.payload))
       ELSE fixed_header

PublishBuilder_build(b) ==
    LET fixed_header ==
            FixedHeaderBuilder_build(
                FixedHeaderBuilder_qos(
                    FixedHeaderBuilder_retain(
                        FixedHeaderBuilder_dup(
                            FixedHeaderBuilder_type(FixedHeaderBuilder_new, "PUBLISH"),
                            Some(b.dup)),
                        Some(b.retain)),
                    Some(b.qos)))
        variable_header ==
            IF b.qos = QoSAtMostOnce
            THEN PublishVariableHeader_new(b.topic, None, Some(QoSAtMostOnce))
            ELSE PublishVariableHeader_new(b.topic, b.message_id, Some(b.qos))
        remaining_length == variable_header.variable_header_len + Len(b.payload)
    IN IF IsOk(fixed_header)
       THEN Ok(Publish(set_remaining_length(fixed_header.val, remaining_length),
                       variable_header, b.payload))
       ELSE fixed_header

-----------------------------------------------------------------------------
(* Specification SpecPublish: PublishBuilder, Publish::update,              *)
(* Publish::encode and Publish::decode                                      *)

BigPayloadLen == 130

MessageIds == {0, 1, 65535}
Topics == Strs(116)
Payloads == Strs(104) \cup { [i \in 1..BigPayloadLen |-> 120] }

PublishBuilding == pc = "building" /\ inp.kind = "publish"

PBNew ==
    /\ pc = "idle"
    /\ inp' = [kind |-> "publish", b |-> PublishBuilder_new]
    /\ pc' = "building"
    /\ UNCHANGED <<pkt, buf, ret, dec>>

PBTopic ==
    /\ PublishBuilding
    /\ \E v \in Topics : inp' = [inp EXCEPT !.b.topic = v]
    /\ UNCHANGED <<pc, pkt, buf, ret, dec>>

PBMessageId ==
    /\ PublishBuilding
    /\ \E v \in MessageIds : inp' = [inp EXCEPT !.b.message_id = Some(v)]
    /\ UNCHANGED <<pc, pkt, buf, ret, dec>>

PBQos ==
    /\ PublishBuilding
    /\ \E v \in QoSValues : inp' = [inp EXCEPT !.b.qos = v]
    /\ UNCHANGED <<pc, pkt, buf, ret, dec>>

PBRetain ==
    /\ PublishBuilding
    /\ \E v \in BOOLEAN : inp' = [inp EXCEPT !.b.retain = v]
    /\ UNCHANGED <<pc, pkt, buf, ret, dec>>

PBDup ==
    /\ PublishBuilding
    /\ \E v \in BOOLEAN : inp' = [inp EXCEPT !.b.dup = v]
    /\ UNCHANGED <<pc, pkt, buf, ret, dec>>

PBPayload ==
    /\ PublishBuilding
    /\ \E v \in Payloads : inp' = [inp EXCEPT !.b.payload = v]
    /\ UNCHANGED <<pc, pkt, buf, ret, dec>>

PBBuild ==
    /\ PublishBuilding
    /\ pkt' = PublishBuilder_build(inp.b)
    /\ pc' = "built"
    /\ UNCHANGED <<inp, buf, ret, dec>>

PublishUpdate ==
    /\ pc = "built" /\ inp.kind = "publish" /\ IsOk(pkt)
    /\ \E v \in MessageIds : pkt' = Ok(Publish_update(pkt.val, v))
    /\ UNCHANGED <<pc, inp, buf, ret, dec>>

PublishEncode ==
    /\ pc = "built" /\ inp.kind = "publish" /\ IsOk(pkt)
    /\ LET e == Publish_encode(pkt.val)
       IN buf' = e.out /\ ret' = e.res
    /\ pc' = "encoded"
    /\ UNCHANGED <<inp, pkt, dec>>

PublishDecode ==
    /\ pc = "encoded" /\ inp.kind = "publish" /\ IsOk(ret)
    /\ dec' = Publish_decode(buf)
    /\ pc' = "decoded"
    /\ UNCHANGED <<inp, pkt, buf, ret>>

\* Publish::decode on a frame cut short at any position (down to no bytes)
PublishDecodeTruncated ==
    /\ pc = "encoded" /\ inp.kind = "publish" /\ IsOk(ret)
    /\ \E k \in 0..(Len(buf) - 1) :
          /\ buf' = Take(buf, k)
          /\ dec' = Publish_decode(Take(buf, k))
    /\ pc' = "decoded_truncated"
    /\ UNCHANGED <<inp, pkt, ret>>

\* the bytes that follow the frame in the buffer: a PINGREQ frame
TrailingFrames == {<<192, 0>>}

PublishDecodeTrailing ==
    /\ pc = "encoded" /\ inp.kind = "publish" /\ IsOk(ret)
    /\ \E more \in TrailingFrames :
          /\ buf' = buf \o more
          /\ dec' = Publish_decode(buf \o more)
    /\ pc' = "decoded_trailing"
    /\ UNCHANGED <<inp, pkt, ret>>

NextPublish ==
    \/ PBNew \/ PBTopic \/ PBMessageId \/ PBQos \/ PBRetain \/ PBDup \/ PBPayload
    \/ PBBuild \/ PublishUpdate \/ PublishEncode \/ PublishDecode
    \/ PublishDecodeTruncated \/ PublishDecodeTrailing

SpecPublish == InitIdle /\ [][NextPublish]_vars

-----------------------------------------------------------------------------
(* Claims about PUBLISH, under SpecPublish *)

PublishEncoded == pc = "encoded" /\ inp.kind = "publish" /\ IsOk(ret)
PublishDecoded == pc = "decoded" /\ inp.kind = "publish"

\* the packet is as PublishBuilder::build returned it (no update) and, for
\* QoS > 0, a message_id was given to the builder
BuiltWithId ==
    /\ pkt.val.variable_header.message_id =
           (IF inp.b.qos = QoSAtMostOnce THEN None ELSE inp.b.message_id)
    /\ inp.b.qos > QoSAtMostOnce => IsSome(inp.b.message_id)

\* C2: for every Publish built with any dup, retain, QoS, topic, payload and
\* (for QoS > 0) message_id in 0..=65535, Publish::decode of the encoded bytes
\* succeeds with the same remaining_length, dup, QoS, retain, topic,
\* message_id and payload.
C2_PublishRoundTrip ==
    (PublishDecoded /\ BuiltWithId) =>
        /\ IsOk(dec)
        /\ dec.val.fixed_header.remaining_length = pkt.val.fixed_header.remaining_length
        /\ dec.val.fixed_header.dup = pkt.val.fixed_header.dup
        /\ dec.val.fixed_header.qos = pkt.val.fixed_header.qos
        /\ dec.val.fixed_header.retain = pkt.val.fixed_header.retain
        /\ dec.val.variable_header.topic = pkt.val.variable_header.topic
        /\ dec.val.variable_header.message_id = pkt.val.variable_header.message_id
        /\ dec.val.payload = pkt.val.payload

\* the number of length bytes at the start of s (the bytes after byte 1)
LengthFieldSize(s) == FirstTerminator(s)

\* whether the encoded frame holds a 2-byte packet identifier between the
\* topic and the payload
HasPacketId(frame, p) ==
    Len(frame) - 1 - LengthFieldSize(Tail(frame))
        = 2 + Len(p.variable_header.topic) + 2 + Len(p.payload)

HasNoPacketId(frame, p) ==
    Len(frame) - 1 - LengthFieldSize(Tail(frame))
        = 2 + Len(p.variable_header.topic) + Len(p.payload)

\* C5: for every Publish from PublishBuilder::build followed by any number of
\* Publish::update calls, the encoded variable header holds a 2-byte packet
\* identifier if and only if the QoS of the fixed header is greater than 0.
C5_PacketIdIffQos ==
    PublishEncoded =>
        IF Unwrap(pkt.val.fixed_header.qos) > QoSAtMostOnce
        THEN HasPacketId(buf, pkt.val)
        ELSE HasNoPacketId(buf, pkt.val)


\* len == 1 + the number of bytes of the encoded remaining_length
HeaderLenConsistent(fh) == fh.len = 1 + Len(Base128(fh.remaining_length))

\* C14: every FixedHeader held by a packet that a builder or decode returns
\* has len = 1 + the number of bytes of its encoded remaining_length, also
\* after the builder changed the remaining length with set_remaining_length.
C14_HeaderLen ==
    /\ (pc \in {"built", "encoded", "decoded"} /\ inp.kind = "publish" /\ IsOk(pkt)) =>
          HeaderLenConsistent(pkt.val.fixed_header)
    /\ (PublishDecoded /\ IsOk(dec)) => HeaderLenConsistent(dec.val.fixed_header)

\* C4: no decode or encode operation panics, whatever the input: an empty
\* buffer and a frame truncated at any position give Ok or Err.
C4_NoPanic ==
    /\ pc = "encoded" => ~IsPanic(ret)
    /\ pc \in {"decoded", "decoded_truncated"} => ~IsPanic(dec)

-----------------------------------------------------------------------------
(* The packets with a GeneralVariableHeader, CONNACK, PINGREQ, PINGRESP and *)
(* DISCONNECT: constructors, builders and encoders                          *)

GeneralVariableHeader_new(message_id) == [message_id |-> message_id]

GeneralVariableHeader_encode(vh) ==
    [res |-> Ok(2), out |-> put_u16(vh.message_id)]

\* FixedHeaderBuilder::new().<type>().build()
FixedHeaderOf(message_type) ==
    FixedHeaderBuilder_build(FixedHeaderBuilder_type(FixedHeaderBuilder_new,
                                                     message_type))

Topic_new(name, qos) == [name |-> name, qos |-> qos, name_len |-> Len(name)]

Topic_encode(t) ==
    [res |-> Ok(t.name_len + 3), out |-> put_u16(t.name_len) \o t.name \o <<t.qos>>]

RECURSIVE ConcatAll(_)
ConcatAll(ss) == IF ss = <<>> THEN <<>> ELSE Head(ss) \o ConcatAll(Tail(ss))

RECURSIVE SumAll(_)
SumAll(ns) == IF ns = <<>> THEN 0 ELSE Head(ns) + SumAll(Tail(ns))

\* header bytes, then the variable header, then the body, with the returned
\* count computed by the caller
HeaderThenBody(h, body, count) ==
    IF IsOk(h.res) THEN [res |-> Ok(count), out |-> h.out \o body] ELSE h

SubAck_new(fixed_header, variable_header, acks) ==
    [fixed_header |-> set_remaining_length(fixed_header, Len(acks)),
     variable_header |-> variable_header, acks |-> acks]

SubAckBuilder_build(message_id, acks) ==
    LET fixed_header == FixedHeaderOf("SUBACK")
    IN IF IsOk(fixed_header)
       THEN Ok(SubAck_new(set_remaining_length(fixed_header.val, 2 + Len(acks)),
                          GeneralVariableHeader_new(message_id), acks))
       ELSE fixed_header

SubAck_encode(p) ==
    LET h == FixedHeader_encode(p.fixed_header)
        v == GeneralVariableHeader_encode(p.variable_header)
    IN HeaderThenBody(h, v.out \o p.acks, h.res.val + v.res.val + Len(p.acks))

Subscribe_topics_len(topices) ==
    SumAll([i \in 1..Len(topices) |-> topices[i].name_len + 3])

Subscribe_new(fixed_header, variable_header, topices) ==
    [fixed_header |-> set_remaining_length(fixed_header,
                                           Subscribe_topics_len(topices) + 2),
     variable_header |-> variable_header, topices |-> topices]

SubscribeBuilder_build(message_id, topics) ==
    LET fixed_header == FixedHeaderOf("SUBSCRIBE")
    IN IF IsOk(fixed_header)
       THEN Ok(Subscribe_new(fixed_header.val,
                             GeneralVariableHeader_new(message_id), topics))
       ELSE NotKnow

Subscribe_encode(p) ==
    LET h == FixedHeader_encode(p.fixed_header)
        v == GeneralVariableHeader_encode(p.variable_header)
    IN HeaderThenBody(h,
           v.out \o ConcatAll([i \in 1..Len(p.topices) |->
                                   Topic_encode(p.topices[i]).out]),
           h.res.val + v.res.val + Subscribe_topics_len(p.topices))

UnsubscriberBuilder_remaining_length(topices) ==
    SumAll([i \in 1..Len(topices) |-> Len(topices[i]) + 2])

UnsubscriberBuilder_build(message_id, topices) ==
    LET fixed_header == FixedHeaderOf("UNSUBSCRIBE")
    IN IF IsOk(fixed_header)
       THEN Ok([fixed_header |->
                    set_remaining_length(fixed_header.val,
                        UnsubscriberBuilder_remaining_length(topices) + 2),
                variable_header |-> GeneralVariableHeader_new(message_id),
                topices |-> topices])
       ELSE fixed_header

UnSubscribe_encode(p) ==
    LET h == FixedHeader_encode(p.fixed_header)
        v == GeneralVariableHeader_encode(p.variable_header)
    IN HeaderThenBody(h,
           v.out \o ConcatAll([i \in 1..Len(p.topices) |->
                                   write_mqtt_string(p.topices[i])]),
           h.res.val + v.res.val
               + SumAll([i \in 1..Len(p.topices) |-> Len(p.topices[i]) + 2]))

UnsubAckBuilder_build(message_id) ==
    LET fixed_header == FixedHeaderOf("UNSUBACK")
    IN IF IsOk(fixed_header)
       THEN Ok([fixed_header |-> set_remaining_length(fixed_header.val, 2),
                variable_header |-> GeneralVariableHeader_new(message_id)])
       ELSE fixed_header

\* `if let Ok(..) = fixed_header.encode(..)`: an Err becomes NotKnow, a panic
\* of the header encoder is not caught
UnSubAck_encode(p) ==
    LET h == FixedHeader_encode(p.fixed_header)
    IN IF IsOk(h.res)
       THEN [res |-> Ok(4), out |-> h.out \o put_u16(p.variable_header.message_id)]
       ELSE IF IsPanic(h.res) THEN [res |-> Panic, out |-> h.out]
       ELSE [res |-> NotKnow, out |-> h.out]

\* PubAck::new and PubComp::new: both keep a pub_rel() fixed header
PubAck_new(message_id) ==
    [fixed_header |-> FixedHeaderOf("PUBREL").val,
     variable_header |-> GeneralVariableHeader_new(message_id)]

PubComp_new(message_id) ==
    [fixed_header |-> FixedHeaderOf("PUBREL").val,
     variable_header |-> GeneralVariableHeader_new(message_id)]

\* PubAck::encode and PubComp::encode build a fresh header of their own type
AckEncode(message_type, p) ==
    LET fixed_header == FixedHeaderOf(message_type)
        h == FixedHeader_encode(fixed_header.val)
    IN IF ~IsOk(fixed_header) THEN [res |-> fixed_header, out |-> <<>>]
       ELSE IF IsOk(h.res)
            THEN [res |-> Ok(4),
                  out |-> h.out \o put_u16(p.variable_header.message_id)]
            ELSE IF IsPanic(h.res) THEN [res |-> Panic, out |-> h.out]
            ELSE [res |-> Err("EncodeVariableHeaderError", 0), out |-> h.out]

PubAck_encode(p) == AckEncode("PUBACK", p)
PubComp_encode(p) == AckEncode("PUBCOMP", p)

ConnAckTypes == 0..5

ConnAck_new(conn_ack_type) ==
    LET fixed_header == FixedHeaderOf("CONNACK")
    IN IF IsOk(fixed_header)
       THEN Ok([fixed_header |-> fixed_header.val,
                variable_header |-> [session_present |-> FALSE,
                                     conn_ack_type |-> conn_ack_type]])
       ELSE fixed_header

ConnAckVariableHeader_encode(vh) ==
    [res |-> Ok(2), out |-> <<0, vh.conn_ack_type>>]

ConnAck_encode(p) ==
    LET h == FixedHeader_encode(p.fixed_header)
        v == ConnAckVariableHeader_encode(p.variable_header)
    IN HeaderThenBody(h, v.out, h.res.val + v.res.val)

\* PingReq::new, PingResp::new and DisconnectBuilder::build hold a header only
PingNew(message_type) ==
    LET fixed_header ==
            FixedHeaderBuilder_build(
                FixedHeaderBuilder_remaining_length(
                    FixedHeaderBuilder_retain(
                        FixedHeaderBuilder_qos(
                            FixedHeaderBuilder_dup(
                                FixedHeaderBuilder_type(FixedHeaderBuilder_new,
                                                        message_type),
                                Some(FALSE)),
                            Some(QoSAtMostOnce)),
                        Some(FALSE)),
                    0))
    IN Ok([fixed_header |-> fixed_header.val])

DisconnectBuilder_build ==
    LET resp == FixedHeaderOf("DISCONNECT")
    IN IF IsOk(resp) THEN Ok([fixed_header |-> resp.val]) ELSE resp

HeaderOnly_encode(p) == FixedHeader_encode(p.fixed_header)

\* Encoder::encode of the packet held, by its type
Packet_encode(kind, p) ==
    CASE kind = "suback"      -> SubAck_encode(p)
      [] kind = "subscribe"   -> Subscribe_encode(p)
      [] kind = "unsubscribe" -> UnSubscribe_encode(p)
      [] kind = "unsuback"    -> UnSubAck_encode(p)
      [] kind = "puback"      -> PubAck_encode(p)
      [] kind = "pubcomp"     -> PubComp_encode(p)
      [] kind = "connack"     -> ConnAck_encode(p)
      [] kind \in {"pingreq", "pingresp", "disconnect"} -> HeaderOnly_encode(p)

-----------------------------------------------------------------------------
(* Specification Spec: every packet type, from its builder or constructor  *)
(* to the encoded bytes (with the CONNECT and PUBLISH actions above)        *)

MaxAcks == 2
MaxTopics == 2

AckCodes == {0, 1, 2, 128}
AckLists == UNION { [1..n -> AckCodes] : n \in 0..MaxAcks }
TopicFilters == { Topic_new(n, q) : n \in Strs(116), q \in QoSValues }
TopicLists == UNION { [1..n -> TopicFilters] : n \in 0..MaxTopics }
TopicNameLists == UNION { [1..n -> Strs(116)] : n \in 0..MaxTopics }

BuildSubAck ==
    /\ pc = "idle"
    /\ \E m \in MessageIds, a \in AckLists :
          /\ inp' = [kind |-> "suback", b |-> <<m, a>>]
          /\ pkt' = SubAckBuilder_build(m, a)
    /\ pc' = "built"
    /\ UNCHANGED <<buf, ret, dec>>

BuildSubscribe ==
    /\ pc = "idle"
    /\ \E m \in MessageIds, t \in TopicLists :
          /\ inp' = [kind |-> "subscribe", b |-> <<m, t>>]
          /\ pkt' = SubscribeBuilder_build(m, t)
    /\ pc' = "built"
    /\ UNCHANGED <<buf, ret, dec>>

BuildUnSubscribe ==
    /\ pc = "idle"
    /\ \E m \in MessageIds, t \in TopicNameLists :
          /\ inp' = [kind |-> "unsubscribe", b |-> <<m, t>>]
          /\ pkt' = UnsubscriberBuilder_build(m, t)
    /\ pc' = "built"
    /\ UNCHANGED <<buf, ret, dec>>

BuildUnSubAck ==
    /\ pc = "idle"
    /\ \E m \in MessageIds :
          /\ inp' = [kind |-> "unsuback", b |-> <<m>>]
          /\ pkt' = UnsubAckBuilder_build(m)
    /\ pc' = "built"
    /\ UNCHANGED <<buf, ret, dec>>

BuildPubAck ==
    /\ pc = "idle"
    /\ \E m \in MessageIds :
          /\ inp' = [kind |-> "puback", b |-> <<m>>]
          /\ pkt' = Ok(PubAck_new(m))
    /\ pc' = "built"
    /\ UNCHANGED <<buf, ret, dec>>

BuildPubComp ==
    /\ pc = "idle"
    /\ \E m \in MessageIds :
          /\ inp' = [kind |-> "pubcomp", b |-> <<m>>]
          /\ pkt' = Ok(PubComp_new(m))
    /\ pc' = "built"
    /\ UNCHANGED <<buf, ret, dec>>

BuildConnAck ==
    /\ pc = "idle"
    /\ \E t \in ConnAckTypes :
          /\ inp' = [kind |-> "connack", b |-> <<t>>]
          /\ pkt' = ConnAck_new(t)
    /\ pc' = "built"
    /\ UNCHANGED <<buf, ret, dec>>

BuildPingReq ==
    /\ pc = "idle"
    /\ inp' = [kind |-> "pingreq", b |-> <<>>]
    /\ pkt' = PingNew("PINGREQ")
    /\ pc' = "built"
    /\ UNCHANGED <<buf, ret, dec>>

BuildPingResp ==
    /\ pc = "idle"
    /\ inp' = [kind |-> "pingresp", b |-> <<>>]
    /\ pkt' = PingNew("PINGRESP")
    /\ pc' = "built"
    /\ UNCHANGED <<buf, ret, dec>>

BuildDisConnect ==
    /\ pc = "idle"
    /\ inp' = [kind |-> "disconnect", b |-> <<>>]
    /\ pkt' = DisconnectBuilder_build
    /\ pc' = "built"
    /\ UNCHANGED <<buf, ret, dec>>

PacketEncode ==
    /\ pc = "built" /\ inp.kind \notin {"connect", "publish"} /\ IsOk(pkt)
    /\ LET e == Packet_encode(inp.kind, pkt.val)
       IN buf' = e.out /\ ret' = e.res
    /\ pc' = "encoded"
    /\ UNCHANGED <<inp, pkt, dec>>

NextPackets ==
    \/ BuildSubAck \/ BuildSubscribe \/ BuildUnSubscribe \/ BuildUnSubAck
    \/ BuildPubAck \/ BuildPubComp \/ BuildConnAck \/ BuildPingReq
    \/ BuildPingResp \/ BuildDisConnect \/ PacketEncode

Next == NextPackets \/ NextConnect \/ NextPublish

Spec == InitIdle /\ [][Next]_vars

-----------------------------------------------------------------------------
(* Claims about every packet type, under Spec *)

RECURSIVE VarIntValue(_, _)
\* the value of the first k bytes of s read as a base-128 little-endian number
VarIntValue(s, k) ==
    IF k = 0 THEN 0 ELSE (s[1] % 128) + 128 * VarIntValue(Tail(s), k - 1)

\* the Remaining Length value written after byte 1 of the frame
WrittenRemainingLength(frame) ==
    VarIntValue(Tail(frame), LengthFieldSize(Tail(frame)))

\* C3: for every packet of every type produced by its builder, the number of
\* bytes encode appends equals the byte length of the fixed header plus the
\* Remaining Length value written in that header.
C3_EncodedLength ==
    (pc = "encoded" /\ IsOk(ret)) =>
        Len(buf) = 1 + LengthFieldSize(Tail(buf)) + WrittenRemainingLength(buf)

-----------------------------------------------------------------------------
(* SUBSCRIBE and UNSUBSCRIBE decoders (subscribe.rs, un_subscribe.rs, lib.rs) *)

\* bytes.get_u16() panics when fewer than 2 bytes remain
GeneralVariableHeader_decode(bytes) ==
    IF Len(bytes) < 2 THEN [res |-> Panic, rest |-> bytes]
    ELSE [res |-> Ok(GeneralVariableHeader_new(bytes[1] * 256 + bytes[2])),
          rest |-> Drop(bytes, 2)]

QoS_try_from(value) ==
    IF value \in QoSValues THEN Ok(value) ELSE Err("QoSError", value)

RECURSIVE Topic_read_topics_mut(_, _)
\* Topic::read_topics pushing each topic at the front of the list
Topic_read_topics_mut(stream, resp) ==
    IF Len(stream) = 0 THEN Ok(resp)
    ELSE LET n == read_mqtt_string(stream)
             q == read_u8(n.rest)
         IN IF IsOk(n.res) /\ IsOk(q.res)
            THEN LET qos == QoS_try_from(q.res.val)
                 IN IF IsOk(qos)
                    THEN Topic_read_topics_mut(q.rest,
                             <<Topic_new(n.res.val, qos.val)>> \o resp)
                    ELSE qos
            ELSE Err("ReadTopicError", 0)

RECURSIVE Topic_read_topics(_, _)
Topic_read_topics(stream, resp) ==
    IF Len(stream) = 0 THEN Ok(resp)
    ELSE LET n == read_mqtt_string(stream)
             q == read_u8(n.rest)
         IN IF IsOk(n.res) /\ IsOk(q.res)
            THEN LET qos == QoS_try_from(q.res.val)
                 IN IF IsOk(qos)
                    THEN Topic_read_topics(q.rest,
                             Append(resp, Topic_new(n.res.val, qos.val)))
                    ELSE qos
            ELSE Err("ReadTopicError", 0)

Subscribe_decode(bytes) ==
    LET fh == read_fixed_header(bytes)
    IN IF ~IsOk(fh) THEN fh
       ELSE LET vh == GeneralVariableHeader_decode(Drop(bytes, fh.val.len))
            IN IF IsPanic(vh.res) THEN Panic
               ELSE LET topices == Topic_read_topics(vh.rest, <<>>)
                    IN IF IsOk(topices)
                       THEN Ok([fixed_header |-> fh.val,
                                variable_header |-> vh.res.val,
                                topices |-> topices.val])
                       ELSE topices

RECURSIVE UnSubscribe_read_topices_mut(_, _)
\* the topic loop of UnSubscribe::decode stopping quietly at a failed read
UnSubscribe_read_topices_mut(bytes, topices) ==
    IF Len(bytes) = 0 THEN Ok(topices)
    ELSE LET topic == read_mqtt_string(bytes)
         IN IF IsOk(topic.res)
            THEN UnSubscribe_read_topices_mut(topic.rest, Append(topices, topic.res.val))
            ELSE Ok(topices)

RECURSIVE UnSubscribe_read_topices(_, _)
\* the topic loop of UnSubscribe::decode
UnSubscribe_read_topices(bytes, topices) ==
    IF Len(bytes) = 0 THEN Ok(topices)
    ELSE LET topic == read_mqtt_string(bytes)
         IN IF IsOk(topic.res)
            THEN UnSubscribe_read_topices(topic.rest, Append(topices, topic.res.val))
            ELSE topic.res

UnSubscribe_decode(bytes) ==
    LET fh == read_fixed_header(bytes)
    IN IF ~IsOk(fh) THEN fh
       ELSE LET vh == GeneralVariableHeader_decode(Drop(bytes, fh.val.len))
            IN IF IsPanic(vh.res) THEN Panic
               ELSE LET topices == UnSubscribe_read_topices(vh.rest, <<>>)
                    IN IF IsOk(topices)
                       THEN Ok([fixed_header |-> fh.val,
                                variable_header |-> vh.res.val,
                                topices |-> topices.val])
                       ELSE topices

-----------------------------------------------------------------------------
(* Specification SpecSubscribe: SUBSCRIBE and UNSUBSCRIBE from the builder  *)
(* to the wire and back, the frame whole or cut short                       *)

SubscribeDecode ==
    /\ pc = "encoded" /\ inp.kind = "subscribe" /\ IsOk(ret)
    /\ \E k \in 0..Len(buf) :
          /\ buf' = Take(buf, k)
          /\ dec' = Subscribe_decode(Take(buf, k))
          /\ pc' = IF k = Len(buf) THEN "decoded" ELSE "decoded_truncated"
    /\ UNCHANGED <<inp, pkt, ret>>

UnSubscribeDecode ==
    /\ pc = "encoded" /\ inp.kind = "unsubscribe" /\ IsOk(ret)
    /\ \E k \in 0..Len(buf) :
          /\ buf' = Take(buf, k)
          /\ dec' = UnSubscribe_decode(Take(buf, k))
          /\ pc' = IF k = Len(buf) THEN "decoded" ELSE "decoded_truncated"
    /\ UNCHANGED <<inp, pkt, ret>>

NextSubscribe ==
    \/ BuildSubscribe \/ BuildUnSubscribe \/ PacketEncode
    \/ SubscribeDecode \/ UnSubscribeDecode

SpecSubscribe == InitIdle /\ [][NextSubscribe]_vars

-----------------------------------------------------------------------------
(* Claims about SUBSCRIBE and UNSUBSCRIBE, under SpecSubscribe *)

FiltersDecoded == pc = "decoded" /\ inp.kind \in {"subscribe", "unsubscribe"}

\* C15: for a SUBSCRIBE or UNSUBSCRIBE built with filter list T and
\* message_id m, decode(encode) yields exactly the list T in the same order
\* (the empty list when nothing follows the identifier) and the identifier m.
C15_FiltersRoundTrip ==
    FiltersDecoded =>
        /\ IsOk(dec)
        /\ dec.val.topices = inp.b[2]
        /\ dec.val.variable_header.message_id = inp.b[1]

C15_Witness ==
    /\ FiltersDecoded
    /\ inp.kind = "subscribe"
    /\ Len(inp.b[2]) = 2
    /\ inp.b[2][1] # inp.b[2][2]
    /\ IsOk(dec)
    /\ dec.val.topices = inp.b[2]
    /\ dec.val.variable_header.message_id = 65535

\* the encoded size of the last filter of the packet built
LastFilterSize ==
    LET last == inp.b[2][Len(inp.b[2])]
    IN IF inp.kind = "subscribe" THEN last.name_len + 3 ELSE Len(last) + 2

\* the frame was cut inside its last filter
CutInLastFilter ==
    /\ pc = "decoded_truncated" /\ inp.kind \in {"subscribe", "unsubscribe"}
    /\ Len(inp.b[2]) >= 1
    /\ Len(buf) > Len(Packet_encode(inp.kind, pkt.val).out) - LastFilterSize

\* C16: decoding a SUBSCRIBE or UNSUBSCRIBE payload whose last filter is
\* truncated returns an error, never a packet holding the filters decoded
\* before the truncation.
C16_TruncatedFilter ==
    CutInLastFilter => IsErr(dec)

C16_Witness ==
    /\ CutInLastFilter
    /\ inp.kind = "unsubscribe"
    /\ Len(inp.b[2]) = 2
    /\ IsErr(dec)

-----------------------------------------------------------------------------
(* MQTT v5 properties (v5/connect.rs) *)

MAX_PROPERTIES_LEN == 65535

Properties(session_expiry_interval, receive_maximum, user_properties) ==
    [session_expiry_interval |-> session_expiry_interval,
     receive_maximum |-> receive_maximum,
     user_properties |-> user_properties]

Properties_default == Properties(None, None, <<>>)

put_u32(x) ==
    <<(x \div 16777216) % 256, (x \div 65536) % 256, (x \div 256) % 256, x % 256>>

\* put_u16(len as u16) followed by put_slice
put_len_prefixed(string) == put_u16(Len(string) % 65536) \o string

UserProperty_entry_len(entry) == 1 + 2 + Len(entry[1]) + 2 + Len(entry[2])

RECURSIVE Properties_encode_user_mut(_, _, _)
\* the user property loop of Properties::encode without its size check
Properties_encode_user_mut(user_properties, total_len, out) ==
    IF Len(user_properties) = 0 THEN [res |-> Ok(total_len), out |-> out]
    ELSE LET entry == Head(user_properties)
             entry_len == UserProperty_entry_len(entry)
         IN Properties_encode_user_mut(
                Tail(user_properties), total_len + entry_len,
                out \o <<38>> \o put_len_prefixed(entry[1])
                    \o put_len_prefixed(entry[2]))

RECURSIVE Properties_encode_user(_, _, _)
\* the user property loop of Properties::encode
Properties_encode_user(user_properties, total_len, out) ==
    IF Len(user_properties) = 0 THEN [res |-> Ok(total_len), out |-> out]
    ELSE LET entry == Head(user_properties)
             entry_len == UserProperty_entry_len(entry)
         IN IF total_len + entry_len > MAX_PROPERTIES_LEN
            THEN [res |-> Err("OutOfMaxPropertySize", 0), out |-> out]
            ELSE Properties_encode_user(
                     Tail(user_properties), total_len + entry_len,
                     out \o <<38>> \o put_len_prefixed(entry[1])
                         \o put_len_prefixed(entry[2]))

Properties_encode(p) ==
    LET expiry == IF IsSome(p.session_expiry_interval)
                  THEN <<17>> \o put_u32(Unwrap(p.session_expiry_interval))
                  ELSE <<>>
        max == IF IsSome(p.receive_maximum)
               THEN <<18>> \o put_u16(Unwrap(p.receive_maximum))
               ELSE <<>>
    IN Properties_encode_user(p.user_properties, Len(expiry) + Len(max),
                              expiry \o max)

RECURSIVE Properties_decode_loop_mut(_, _)
\* the loop of Properties::decode putting each user property first in the list
Properties_decode_loop_mut(bytes, properties) ==
    IF Len(bytes) = 0 THEN Ok(properties)
    ELSE LET property_id == Head(bytes)
             rest == Tail(bytes)
         IN IF property_id = 17
            THEN IF Len(rest) < 4 THEN Panic
                 ELSE Properties_decode_loop_mut(
                          Drop(rest, 4),
                          [properties EXCEPT !.session_expiry_interval =
                              Some(rest[1] * 16777216 + rest[2] * 65536
                                   + rest[3] * 256 + rest[4])])
            ELSE IF property_id = 18
            THEN IF Len(rest) < 2 THEN Panic
                 ELSE Properties_decode_loop_mut(
                          Drop(rest, 2),
                          [properties EXCEPT !.receive_maximum =
                              Some(rest[1] * 256 + rest[2])])
            ELSE IF property_id = 38
            THEN LET key == read_mqtt_string(rest)
                 IN IF ~IsOk(key.res) THEN key.res
                    ELSE LET value == read_mqtt_string(key.rest)
                         IN IF ~IsOk(value.res) THEN value.res
                            ELSE Properties_decode_loop_mut(
                                     value.rest,
                                     [properties EXCEPT !.user_properties =
                                         <<<<key.res.val, value.res.val>>>> \o @])
            ELSE NotKnow

RECURSIVE Properties_decode_loop(_, _)
\* the loop of Properties::decode; get_u32 and get_u16 panic on a short buffer
Properties_decode_loop(bytes, properties) ==
    IF Len(bytes) = 0 THEN Ok(properties)
    ELSE LET property_id == Head(bytes)
             rest == Tail(bytes)
         IN IF property_id = 17
            THEN IF Len(rest) < 4 THEN Panic
                 ELSE Properties_decode_loop(
                          Drop(rest, 4),
                          [properties EXCEPT !.session_expiry_interval =
                              Some(rest[1] * 16777216 + rest[2] * 65536
                                   + rest[3] * 256 + rest[4])])
            ELSE IF property_id = 18
            THEN IF Len(rest) < 2 THEN Panic
                 ELSE Properties_decode_loop(
                          Drop(rest, 2),
                          [properties EXCEPT !.receive_maximum =
                              Some(rest[1] * 256 + rest[2])])
            ELSE IF property_id = 38
            THEN LET key == read_mqtt_string(rest)
                 IN IF ~IsOk(key.res) THEN key.res
                    ELSE LET value == read_mqtt_string(key.rest)
                         IN IF ~IsOk(value.res) THEN value.res
                            ELSE Properties_decode_loop(
                                     value.rest,
                                     [properties EXCEPT !.user_properties =
                                         Append(@, <<key.res.val, value.res.val>>)])
            ELSE NotKnow

Properties_decode(bytes) == Properties_decode_loop(bytes, Properties_default)

-----------------------------------------------------------------------------
(* Specification SpecProperties: Properties values filled field by field,   *)
(* Properties::encode, and Properties::decode on property bytes             *)

BigKeyLen == 65522
MaxUserProps == 2

SessionExpiries == {16909060}
ReceiveMaximums == {65535}
PropertyKeys == {<<107>>, [i \in 1..BigKeyLen |-> 107]}
PropertyValues == {<<>>, <<118>>}

\* property bytes: complete properties, then one identifier, then its data
PropertyPrefixes == {<<>>, <<18, 0, 1>>, <<38, 0, 1, 107, 0, 0>>}
PropertyTails == {<<>>, <<0, 0, 0, 0>>}

PropertiesBuilding == pc = "building" /\ inp.kind = "properties"

PropertiesDefault ==
    /\ pc = "idle"
    /\ inp' = [kind |-> "properties", p |-> Properties_default]
    /\ pc' = "building"
    /\ UNCHANGED <<pkt, buf, ret, dec>>

PropertiesSessionExpiry ==
    /\ PropertiesBuilding
    /\ \E v \in SessionExpiries :
          inp' = [inp EXCEPT !.p.session_expiry_interval = Some(v)]
    /\ UNCHANGED <<pc, pkt, buf, ret, dec>>

PropertiesReceiveMaximum ==
    /\ PropertiesBuilding
    /\ \E v \in ReceiveMaximums :
          inp' = [inp EXCEPT !.p.receive_maximum = Some(v)]
    /\ UNCHANGED <<pc, pkt, buf, ret, dec>>

PropertiesUserProperty ==
    /\ PropertiesBuilding
    /\ Len(inp.p.user_properties) < MaxUserProps
    /\ \E k \in PropertyKeys, v \in PropertyValues :
          inp' = [inp EXCEPT !.p.user_properties = Append(@, <<k, v>>)]
    /\ UNCHANGED <<pc, pkt, buf, ret, dec>>

PropertiesEncode ==
    /\ PropertiesBuilding
    /\ LET e == Properties_encode(inp.p)
       IN buf' = e.out /\ ret' = e.res
    /\ pc' = "encoded"
    /\ UNCHANGED <<inp, pkt, dec>>

PropertiesDecode ==
    /\ pc = "idle"
    /\ \E prefix \in PropertyPrefixes, id \in 0..255, tail \in PropertyTails :
          /\ inp' = [kind |-> "rawproperties", prefix |-> prefix, id |-> id]
          /\ buf' = prefix \o <<id>> \o tail
          /\ dec' = Properties_decode(prefix \o <<id>> \o tail)
    /\ pc' = "decoded"
    /\ UNCHANGED <<pkt, ret>>

\* Properties::decode on exactly the bytes Properties::encode wrote
PropertiesDecodeEncoded ==
    /\ pc = "encoded" /\ inp.kind = "properties" /\ IsOk(ret)
    /\ dec' = Properties_decode(buf)
    /\ pc' = "decoded"
    /\ UNCHANGED <<inp, pkt, buf, ret>>

NextProperties ==
    \/ PropertiesDefault \/ PropertiesSessionExpiry \/ PropertiesReceiveMaximum
    \/ PropertiesUserProperty \/ PropertiesEncode \/ PropertiesDecode
    \/ PropertiesDecodeEncoded

SpecProperties == InitIdle /\ [][NextProperties]_vars

-----------------------------------------------------------------------------
(* Claims about the v5 properties, under SpecProperties *)

PropertiesEncoded == pc = "encoded" /\ inp.kind = "properties"

\* the bytes of the two fixed properties of p
FixedPropertiesSize(p) ==
    (IF IsSome(p.session_expiry_interval) THEN 5 ELSE 0)
    + (IF IsSome(p.receive_maximum) THEN 3 ELSE 0)

RECURSIVE RunningTotal(_, _)
\* the property bytes of p up to and including user property i
RunningTotal(p, i) ==
    IF i = 0 THEN FixedPropertiesSize(p)
    ELSE RunningTotal(p, i - 1)
         + 5 + Len(p.user_properties[i][1]) + Len(p.user_properties[i][2])

\* the user properties of p that would bring the running total past the limit
Crossing(p) ==
    { i \in 1..Len(p.user_properties) : RunningTotal(p, i) > 65535 }

FirstCrossing(p) ==
    CHOOSE i \in Crossing(p) : \A j \in Crossing(p) : i <= j

\* C19: Properties::encode returns OutOfMaxPropertySize when adding a user
\* property would bring the running total of encoded property bytes past
\* 65,535, and then has written no byte of that entry or of a later one;
\* whenever it succeeds the encoded property bytes are at most 65,535.
C19_PropertySizeLimit ==
    PropertiesEncoded =>
        /\ Crossing(inp.p) # {} =>
              /\ ret = Err("OutOfMaxPropertySize", 0)
              /\ Len(buf) = RunningTotal(inp.p, FirstCrossing(inp.p) - 1)
        /\ IsOk(ret) => (Len(buf) <= 65535 /\ ret.val = Len(buf))

C19_Witness ==
    /\ PropertiesEncoded
    /\ Len(inp.p.user_properties) = 2
    /\ Crossing(inp.p) = {2}
    /\ FirstCrossing(inp.p) = 2
    /\ ret = Err("OutOfMaxPropertySize", 0)
    /\ Len(buf) = 14

PropertiesDecoded == pc = "decoded" /\ inp.kind = "rawproperties"

\* C20: Properties::decode fails with UnknownProperty carrying the
\* identifier whenever it reads a property identifier other than 0x11, 0x12
\* or 0x26; the unknown identifier is never skipped.
C20_UnknownProperty ==
    (PropertiesDecoded /\ inp.id \notin {17, 18, 38}) =>
        dec = Err("UnknownProperty", inp.id)

-----------------------------------------------------------------------------
(* Further claims about PUBLISH, under SpecPublish *)

\* an encoded PUBLISH that came from the builder at QoS AtMostOnce, with no
\* Publish::update in between
EncodedQoS0FromBuilder ==
    /\ pc = "encoded" /\ inp.kind = "publish"
    /\ inp.b.qos = QoSAtMostOnce
    /\ pkt = PublishBuilder_build(inp.b)

\* C22: for a PUBLISH built with QoS AtMostOnce the encoded bytes depend only
\* on the topic, dup, retain, QoS and payload the builder holds: they are the
\* bytes of the same builder with no message_id set, whatever the order of
\* the setter calls.
C22_QoS0Canonical ==
    EncodedQoS0FromBuilder =>
        buf = Publish_encode(
                  PublishBuilder_build([inp.b EXCEPT !.message_id = None]).val).out

C22_Witness ==
    /\ EncodedQoS0FromBuilder
    /\ inp.b.message_id = Some(1)
    /\ Len(inp.b.topic) = 1
    /\ Len(inp.b.payload) = 1
    /\ buf = Publish_encode(
                 PublishBuilder_build([inp.b EXCEPT !.message_id = None]).val).out

\* the buffer decoded begins with one complete PUBLISH frame (the bytes of
\* pkt, as long as its fixed header declares) and further bytes follow it
DecodedWithTrailing ==
    /\ pc = "decoded_trailing" /\ inp.kind = "publish"
    /\ IsOk(dec)
    /\ Len(Publish_encode(pkt.val).out) =
           dec.val.fixed_header.len + dec.val.fixed_header.remaining_length

\* the bytes of the variable header of a decoded PUBLISH
DecodedVariableHeaderLen(p) ==
    2 + Len(p.variable_header.topic)
    + (IF IsSome(p.variable_header.message_id) THEN 2 ELSE 0)

\* C24: Publish::decode of a buffer that begins with one complete PUBLISH
\* frame returns a payload of exactly remaining_length minus variable-header
\* length bytes, taken from that first frame only, also when further bytes
\* follow the frame in the buffer.
C24_PayloadFromFirstFrame ==
    DecodedWithTrailing =>
        /\ Len(dec.val.payload) =
               dec.val.fixed_header.remaining_length - DecodedVariableHeaderLen(dec.val)
        /\ dec.val.payload = pkt.val.payload

-----------------------------------------------------------------------------
(* Further claims about CONNECT frames, under SpecConnectWire *)

\* a decoded CONNECT frame whose fixed header is two bytes long and declares
\* a remaining length other than the number of bytes that follow it
DeclaredLengthMismatch ==
    /\ ConnectFrameDecoded
    /\ Len(buf) >= 2 /\ buf[2] < 128
    /\ buf[2] # Len(buf) - 2

\* C23: decoding a frame whose type-specific fields occupy fewer or more
\* bytes than the remaining_length declared in its fixed header returns an
\* error instead of a packet.
C23_DeclaredLength ==
    DeclaredLengthMismatch => ~IsOk(dec)

WireFrameDecoded == pc = "decoded_frame" /\ inp.kind = "connectframe"

\* C25: Connect::decode reads the fields after client_id in the order will
\* topic, will payload, username, password, each exactly when its flag bit
\* is set: a field whose bit is clear consumes no bytes, a field whose bit
\* is set is present in the decoded packet with the bytes the frame carries.
C25_GatedPayloadFields ==
    WireFrameDecoded =>
        /\ IsOk(dec)
        /\ dec.val.client_id = inp.client_id
        /\ inp.will_flag =>
              /\ IsSome(dec.val.last_will)
              /\ Unwrap(dec.val.last_will).topic_name = inp.will_topic
              /\ Unwrap(dec.val.last_will).message = inp.will_message
        /\ ~inp.will_flag => dec.val.last_will = None
        /\ inp.username_flag =>
              /\ IsSome(dec.val.login)
              /\ Unwrap(dec.val.login).username = inp.username
        /\ inp.password_flag =>
              /\ IsSome(dec.val.login)
              /\ Unwrap(dec.val.login).password = inp.password
        /\ (~inp.username_flag /\ ~inp.password_flag) => dec.val.login = None

\* the same with a username and a password of at least one byte
C25_NonEmptyLogin ==
    (/\ WireFrameDecoded
     /\ inp.username_flag => Len(inp.username) > 0
     /\ inp.password_flag => Len(inp.password) > 0) =>
        /\ IsOk(dec)
        /\ dec.val.client_id = inp.client_id
        /\ inp.will_flag =>
              /\ IsSome(dec.val.last_will)
              /\ Unwrap(dec.val.last_will).topic_name = inp.will_topic
              /\ Unwrap(dec.val.last_will).message = inp.will_message
        /\ ~inp.will_flag => dec.val.last_will = None
        /\ inp.username_flag =>
              /\ IsSome(dec.val.login)
              /\ Unwrap(dec.val.login).username = inp.username
        /\ inp.password_flag =>
              /\ IsSome(dec.val.login)
              /\ Unwrap(dec.val.login).password = inp.password
        /\ (~inp.username_flag /\ ~inp.password_flag) => dec.val.login = None

-----------------------------------------------------------------------------
(* Further claims about CONNECT, under SpecConnect *)

ConnectEncoded == pc = "encoded" /\ inp.kind = "connect" /\ IsOk(ret)

\* the connect-flags byte of an encoded CONNECT frame
WrittenConnectFlags == AfterFixedHeader(buf)[8]

\* what ConnectBuilder::build and Connect::encode make of the builder fields
WillWritten == IsSome(inp.b.will_topic) /\ IsSome(inp.b.will_message)
LoginWritten == IsSome(inp.b.username) /\ IsSome(inp.b.password)
UsernameWritten == LoginWritten /\ Len(Unwrap(inp.b.username)) > 0
PasswordWritten == LoginWritten /\ Len(Unwrap(inp.b.password)) > 0

\* C26: for a Connect built by ConnectBuilder, the connect-flags byte that
\* encode writes has bit 1 equal to the builder's clean_session, bits 4-3
\* equal to the will QoS and bit 5 equal to the will retain when a will is
\* set, bit 2 set iff a will is written, bit 7 set iff a username is
\* written, bit 6 set iff a password is written, and bit 0 clear.
C26_ConnectFlagsByte ==
    ConnectEncoded =>
        /\ (Bit(WrittenConnectFlags, 1) = 1) <=> inp.b.clean_session
        /\ WillWritten =>
              /\ (WrittenConnectFlags \div 8) % 4 = inp.b.will_qos
              /\ (Bit(WrittenConnectFlags, 5) = 1) <=> inp.b.retain
        /\ (Bit(WrittenConnectFlags, 2) = 1) <=> WillWritten
        /\ (Bit(WrittenConnectFlags, 7) = 1) <=> UsernameWritten
        /\ (Bit(WrittenConnectFlags, 6) = 1) <=> PasswordWritten
        /\ Bit(WrittenConnectFlags, 0) = 0

\* the part of C26 the code keeps: the will flag and the reserved bit
C26_WillFlagAndReserved ==
    ConnectEncoded =>
        /\ (Bit(WrittenConnectFlags, 2) = 1) <=> WillWritten
        /\ Bit(WrittenConnectFlags, 0) = 0

-----------------------------------------------------------------------------
(* Further claims about the fixed header encoder, under SpecFixedHeader *)

HeaderEncodeCalled == pc = "encoded" /\ inp.kind = "fhb"

\* a header of a type other than PUBLISH that asks for a flag bit: dup or
\* retain true, or a QoS above AtMostOnce on a type whose flag nibble is 0000
RequestsNonZeroFlags(fh) ==
    /\ fh.message_type # "PUBLISH"
    /\ \/ fh.dup = Some(TRUE)
       \/ fh.retain = Some(TRUE)
       \/ /\ fh.message_type \notin {"PUBREL", "SUBSCRIBE", "UNSUBSCRIBE"}
          /\ IsSome(fh.qos) /\ Unwrap(fh.qos) > QoSAtMostOnce

\* C27: FixedHeader::encode returns an error, rather than a first byte with
\* the offending bits masked away, for a PUBLISH header that has no QoS
\* value and for a non-PUBLISH header whose requested dup, QoS or retain is
\* non-zero (e.g. CONNECT with dup = true and QoS = AtLeastOnce).
C27_EncoderRejects ==
    HeaderEncodeCalled =>
        /\ (pkt.val.message_type = "PUBLISH" /\ pkt.val.qos = None) => IsErr(ret)
        /\ RequestsNonZeroFlags(pkt.val) => IsErr(ret)

-----------------------------------------------------------------------------
(* Further claims about the v5 properties, under SpecProperties *)

PropertiesRoundTripped == pc = "decoded" /\ inp.kind = "properties"

\* C28: for every Properties value p whose encoding succeeds,
\* Properties::decode of exactly the bytes p.encode wrote returns a value
\* equal to p: the same session_expiry_interval, receive_maximum and
\* user_properties in the same order.
C28_PropertiesRoundTrip ==
    PropertiesRoundTripped => dec = Ok(inp.p)

C28_Witness ==
    /\ PropertiesRoundTripped
    /\ IsSome(inp.p.session_expiry_interval)
    /\ IsSome(inp.p.receive_maximum)
    /\ Len(inp.p.user_properties) = 2
    /\ inp.p.user_properties[1] # inp.p.user_properties[2]
    /\ dec = Ok(inp.p)

-----------------------------------------------------------------------------
(* MQTT v5 CONNECT (v5/connect.rs) *)

v5_PROTOCOL_LEVEL == 5

v5_Connect_new(client_id, keep_alive, clean_start) ==
    [clean_start |-> clean_start, keep_alive |-> keep_alive,
     properties |-> Properties_default, client_id |-> client_id,
     will |-> None, auth |-> None]

v5_LastWill(topic, payload, qos, retain, properties) ==
    [topic |-> topic, payload |-> payload, qos |-> qos, retain |-> retain,
     properties |-> properties]

v5_Auth(method, data) == [method |-> method, data |-> data]

\* put_u32(len as u32) followed by put_slice
put_len32_prefixed(bytes) == put_u32(Len(bytes)) \o bytes

\* the connect-flags byte v5 Connect::encode writes
v5_Connect_flags(c) ==
    (IF c.clean_start THEN 2 ELSE 0)
    + (IF IsSome(c.will)
       THEN 4 + Unwrap(c.will).qos * 8 + (IF Unwrap(c.will).retain THEN 32 ELSE 0)
       ELSE 0)
    + (IF IsSome(c.auth) THEN 192 ELSE 0)

v5_Connect_encode(c) ==
    LET head == put_len_prefixed(PROTOCOL_NAME) \o <<v5_PROTOCOL_LEVEL>>
                \o <<v5_Connect_flags(c)>> \o put_u16(c.keep_alive)
        props == Properties_encode(c.properties)
        cid == put_len_prefixed(c.client_id)
        wprops == IF IsSome(c.will) THEN Properties_encode(Unwrap(c.will).properties)
                  ELSE [res |-> Ok(0), out |-> <<>>]
        will == IF IsSome(c.will)
                THEN put_len_prefixed(Unwrap(c.will).topic)
                     \o put_len32_prefixed(Unwrap(c.will).payload)
                ELSE <<>>
        auth == IF IsSome(c.auth)
                THEN put_len_prefixed(Unwrap(c.auth).method)
                     \o put_len32_prefixed(Unwrap(c.auth).data)
                ELSE <<>>
    IN IF ~IsOk(props.res) THEN [res |-> props.res, out |-> head \o props.out]
       ELSE IF ~IsOk(wprops.res)
            THEN [res |-> wprops.res, out |-> head \o props.out \o cid \o wprops.out]
       ELSE LET out == head \o props.out \o cid \o wprops.out \o will \o auth
            IN [res |-> Ok(Len(out)), out |-> out]

\* get_u32 then split_to: [res |-> Ok(bytes) or Panic, rest]. split_to panics
\* exactly when the length read exceeds what remains; the comparison is made
\* on the top byte and the low three bytes apart, so that the length is only
\* formed when it is at most the number of bytes left
v5_read_len32_prefixed(bytes) ==
    IF Len(bytes) < 4 THEN [res |-> Panic, rest |-> bytes]
    ELSE LET remaining == Len(bytes) - 4
             low == bytes[2] * 65536 + bytes[3] * 256 + bytes[4]
             exceeds == \/ bytes[1] > remaining \div 16777216
                        \/ /\ bytes[1] = remaining \div 16777216
                           /\ low > remaining % 16777216
         IN IF exceeds THEN [res |-> Panic, rest |-> Drop(bytes, 4)]
            ELSE LET n == bytes[1] * 16777216 + low
                 IN [res |-> Ok(SubSeq(bytes, 5, 4 + n)), rest |-> Drop(bytes, 4 + n)]

\* the auth part of v5 Connect::decode
v5_Connect_decode_auth(bytes, flags, connect) ==
    IF Bit(flags, 7) = 0 THEN Ok(connect)
    ELSE LET method == read_mqtt_string(bytes)
         IN IF ~IsOk(method.res) THEN method.res
            ELSE LET data == v5_read_len32_prefixed(method.rest)
                 IN IF ~IsOk(data.res) THEN data.res
                    ELSE Ok([connect EXCEPT
                                !.auth = Some(v5_Auth(method.res.val, data.res.val))])

\* the will part of v5 Connect::decode, then the auth part
v5_Connect_decode_will(bytes, flags, connect) ==
    IF Bit(flags, 2) = 0 THEN v5_Connect_decode_auth(bytes, flags, connect)
    ELSE LET will_properties == Properties_decode(bytes)     \* bytes.clone()
         IN IF ~IsOk(will_properties) THEN will_properties
            ELSE LET topic == read_mqtt_string(bytes)
                 IN IF ~IsOk(topic.res) THEN topic.res
                    ELSE LET payload == v5_read_len32_prefixed(topic.rest)
                             qos == QoS_try_from((flags \div 8) % 4)
                         IN IF ~IsOk(payload.res) THEN payload.res
                            ELSE IF ~IsOk(qos) THEN qos
                            ELSE v5_Connect_decode_auth(
                                     payload.rest, flags,
                                     [connect EXCEPT !.will =
                                         Some(v5_LastWill(topic.res.val, payload.res.val,
                                                          qos.val, Bit(flags, 5) = 1,
                                                          will_properties.val))])

v5_Connect_decode(bytes) ==
    LET name == read_mqtt_string(bytes)
    IN IF ~IsOk(name.res) THEN name.res
       ELSE IF name.res.val # PROTOCOL_NAME THEN NotKnow
       ELSE IF Len(name.rest) < 1 THEN Panic                   \* get_u8
       ELSE IF name.rest[1] # v5_PROTOCOL_LEVEL THEN NotKnow
       ELSE IF Len(name.rest) < 4 THEN Panic                   \* get_u8, get_u16
       ELSE LET flags == name.rest[2]
                clean_start == Bit(flags, 7) = 1
                keep_alive == name.rest[3] * 256 + name.rest[4]
                after == Drop(name.rest, 4)
                properties == Properties_decode(after)         \* bytes.clone()
            IN IF ~IsOk(properties) THEN properties
               ELSE LET client_id == read_mqtt_string(after)
                    IN IF ~IsOk(client_id.res) THEN client_id.res
                       ELSE v5_Connect_decode_will(
                                client_id.rest, flags,
                                [v5_Connect_new(client_id.res.val, keep_alive, clean_start)
                                    EXCEPT !.properties = properties.val])

-----------------------------------------------------------------------------
(* Specification SpecV5Connect: v5 Connect values, encode and decode *)

V5Properties ==
    { Properties(e, m, u) : e \in {None, Some(16909060)}, m \in {None, Some(65535)},
                            u \in {<<>>, <<<<<<107>>, <<118>>>>>>} }
V5WillProperties == {Properties_default, Properties(None, Some(65535), <<>>)}

V5Building == pc = "building" /\ inp.kind = "v5connect"

V5ConnectNew ==
    /\ pc = "idle"
    /\ \E client_id \in ClientIds, keep_alive \in KeepAlives, clean_start \in BOOLEAN :
          inp' = [kind |-> "v5connect",
                  c |-> v5_Connect_new(client_id, keep_alive, clean_start)]
    /\ pc' = "building"
    /\ UNCHANGED <<pkt, buf, ret, dec>>

V5WithProperties ==
    /\ V5Building
    /\ \E p \in V5Properties : inp' = [inp EXCEPT !.c.properties = p]
    /\ UNCHANGED <<pc, pkt, buf, ret, dec>>

V5WithWill ==
    /\ V5Building
    /\ \E t \in WillTopics, m \in WillMessages, q \in QoSValues, r \in BOOLEAN, p \in V5WillProperties :
          inp' = [inp EXCEPT !.c.will = Some(v5_LastWill(t, m, q, r, p))]
    /\ UNCHANGED <<pc, pkt, buf, ret, dec>>

V5WithAuth ==
    /\ V5Building
    /\ \E method \in Usernames, data \in Passwords :
          inp' = [inp EXCEPT !.c.auth = Some(v5_Auth(method, data))]
    /\ UNCHANGED <<pc, pkt, buf, ret, dec>>

V5ConnectEncode ==
    /\ V5Building
    /\ LET e == v5_Connect_encode(inp.c)
       IN buf' = e.out /\ ret' = e.res
    /\ pc' = "encoded"
    /\ UNCHANGED <<inp, pkt, dec>>

V5ConnectDecode ==
    /\ pc = "encoded" /\ inp.kind = "v5connect" /\ IsOk(ret)
    /\ dec' = v5_Connect_decode(buf)
    /\ pc' = "decoded"
    /\ UNCHANGED <<inp, pkt, buf, ret>>

NextV5Connect ==
    \/ V5ConnectNew \/ V5WithProperties \/ V5WithWill \/ V5WithAuth
    \/ V5ConnectEncode \/ V5ConnectDecode

SpecV5Connect == InitIdle /\ [][NextV5Connect]_vars

V5ConnectDecoded == pc = "decoded" /\ inp.kind = "v5connect"

\* C21: for every v5 Connect value c, v5 Connect::decode of the bytes
\* c.encode wrote succeeds and reproduces clean_start, keep_alive,
\* properties, client_id, will and auth.
C21_V5ConnectRoundTrip ==
    V5ConnectDecoded => dec = Ok(inp.c)

-----------------------------------------------------------------------------
(* Encode after decode of CONNECT, under SpecConnect *)

\* C29: for every v4 Connect p built by ConnectBuilder whose encoding
\* decodes successfully to q, encoding q yields the bytes of the encoding of
\* p, and decoding those bytes succeeds again and equals q.
C29_EncodeDecodeFixedPoint ==
    (ConnectDecoded /\ IsOk(dec)) =>
        /\ IsOk(Connect_encode(dec.val).res)
        /\ Connect_encode(dec.val).out = buf
        /\ Connect_decode(Connect_encode(dec.val).out) = dec

C29_Witness ==
    /\ ConnectDecoded /\ IsOk(dec)
    /\ IsSome(dec.val.login) /\ IsSome(dec.val.last_will)
    /\ Len(dec.val.client_id) = 1
    /\ Connect_encode(dec.val).out = buf
    /\ Connect_decode(Connect_encode(dec.val).out) = dec

-----------------------------------------------------------------------------
(* The packet type a decoder accepts, under SpecConnectWire *)

\* C30: a packet-type decoder returns an error when the packet type in the
\* fixed header of its input is not its own type: Connect::decode returns no
\* packet from a frame whose first byte announces a type other than CONNECT.
C30_OwnTypeOnly ==
    (ConnectFrameDecoded /\ TopNibble(buf) # 1) => ~IsOk(dec)

====
